---- MODULE Spec2Model ----
(***************************************************************************)
(* The match session state machine of src/server.js: the `players`        *)
(* registry, the socket.io connections with their socket.data.playerName, *)
(* the pending disconnect grace timers, and one action per event handler   *)
(* or timer callback.                                                      *)
(*                                                                         *)
(* JavaScript values are represented as follows.                           *)
(*   - a player name is a string; the null opponentName is Null;           *)
(*   - a socket id is a number in 1..NumSockets; a null socketId and a     *)
(*     null timer handle are NoSocket / NoTimer;                           *)
(*   - a JavaScript string payload is the sequence of its characters;      *)
(*     a nullable string (player.secret) is a sequence of length 0 (null)  *)
(*     or 1 (the string);                                                  *)
(*   - the `players` object is a function whose DOMAIN is the set of its   *)
(*     keys.                                                               *)
(***************************************************************************)
EXTENDS Integers, Sequences, FiniteSets, TLC

\* ---------------------------------------------------------------- bounds
\* connections opened in a run of Spec, and in a run of SpecGrace
NumSockets == 2
NumGraceSockets == 4

Names == {"A", "B"}

Null == "null"
NoSocket == 0
NoTimer == 0
Broadcast == -1

\* payloads sent with lockSecret and submitGuess: strings as character sequences
Secrets == {<<1, 2, 3, 4>>}
Guesses == {<<1, 2, 3, 4>>, <<1, 2, 4, 3>>}
\* a payload with a repeated symbol, and one that is too short
MalformedPayloads == {<<1, 1, 2, 3>>, <<1, 2>>}

VARIABLES
    players,    \* the registry: name -> player record
    sockets,    \* socket id -> [status, playerName]
    timers,     \* pending setTimeout callbacks, in the order they will fire
    emitted,    \* the emissions of the last handler, in order
    last,       \* the last event handled
    crashed     \* an event handler threw: the process is gone

vars == <<players, sockets, timers, emitted, last, crashed>>

\* ------------------------------------------------------------ JS helpers
\* the value of str[i] past the end of a string, and of a missing argument
Undefined == 0

NullSecret == <<>>
Str(s) == <<s>>
\* a truthiness test that takes every secret for null
NeverTruthy(v) == FALSE

\* truthiness of a nullable string: null and "" are falsy
Truthy(v) == v /= NullSecret /\ v[1] /= <<>>

\* the payload of an event sent with no argument: the handler's parameter is
\* undefined
NoPayload == <<Undefined>>

\* the value player.secret takes from a payload: undefined is falsy like null
Stored(payload) == IF payload = NoPayload THEN NullSecret ELSE Str(payload)

NewPlayer(sid) ==
    [socketId |-> sid, inGame |-> FALSE, opponentName |-> Null,
     secret |-> NullSecret, currentTurn |-> FALSE, disconnected |-> FALSE,
     timer |-> NoTimer]

Has(pl, n) == n \in DOMAIN pl

Delete(pl, n) == [m \in (DOMAIN pl) \ {n} |-> pl[m]]

Emit(to, ev, arg) == [to |-> to, ev |-> ev, arg |-> arg]

Event(ev, s, name, payload) == [ev |-> ev, socket |-> s, name |-> name, payload |-> payload]

\* a snapshot that shows every player out of a match
getLobbySnapshotAllFree(pl) == [n \in DOMAIN pl |-> FALSE]

getLobbySnapshot(pl) == [n \in DOMAIN pl |-> pl[n].inGame]

UpdateLobby(pl) == Emit(Broadcast, "updateLobby", getLobbySnapshot(pl))

\* clearTimeout(handle): the callback will not run; a handle that already
\* fired or was cleared is ignored
clearTimeout(tm, handle) == SelectSeq(tm, LAMBDA t: t.id /= handle)

\* The grace timer closure captures the record object `player`.  Once the
\* record is deleted from `players` nothing else refers to the object, so its
\* fields stay as they were at deletion: the pending closures of that name
\* keep the opponentName the record had then.
Detach(tm, n, opp) ==
    [i \in 1..Len(tm) |->
        IF tm[i].name = n /\ ~tm[i].detached
        THEN [tm[i] EXCEPT !.detached = TRUE, !.opponentName = opp]
        ELSE tm[i]]

\* ------------------------------------------------------------- resetGame
\* resetGame's block with its `secret = null` line missing
ResetOneKeepingSecret(pl, n) ==
    IF Has(pl, n)
    THEN [pl EXCEPT ![n] = [@ EXCEPT !.timer = NoTimer, !.inGame = FALSE,
                                     !.opponentName = Null,
                                     !.currentTurn = FALSE, !.disconnected = FALSE]]
    ELSE pl

ResetOne(pl, n) ==
    IF Has(pl, n)
    THEN [pl EXCEPT ![n] = [@ EXCEPT !.timer = NoTimer, !.inGame = FALSE,
                                     !.opponentName = Null, !.secret = NullSecret,
                                     !.currentTurn = FALSE, !.disconnected = FALSE]]
    ELSE pl

ResetTimers(pl, tm, n) ==
    IF Has(pl, n) /\ pl[n].timer /= NoTimer THEN clearTimeout(tm, pl[n].timer) ELSE tm

\* resetGame with its second block missing
resetGameFirstOnly(pl, name1, name2) == ResetOne(pl, name1)

\* a resetGame that clears every record of the registry
resetGameEveryone(pl, name1, name2) ==
    [n \in DOMAIN pl |-> [pl[n] EXCEPT !.timer = NoTimer, !.inGame = FALSE,
                                       !.opponentName = Null, !.secret = NullSecret,
                                       !.currentTurn = FALSE, !.disconnected = FALSE]]

resetGamePlayers(pl, name1, name2) == ResetOne(ResetOne(pl, name1), name2)

resetGameTimers(pl, tm, name1, name2) ==
    ResetTimers(ResetOne(pl, name1), ResetTimers(pl, tm, name1), name2)

\* ----------------------------------------------------------- getFeedback
CharAt(str, i) == IF i <= Len(str) THEN str[i] ELSE Undefined

\* String.prototype.includes(c): includes(undefined) looks for "undefined"
Includes(str, c) == c /= Undefined /\ \E j \in 1..Len(str) : str[j] = c

Bulls(guess, secret) ==
    Cardinality({i \in 1..4 : CharAt(guess, i) = CharAt(secret, i)})

\* the cows of a loop that has no `else` before its includes test
CowsCountingBulls(guess, secret) ==
    Cardinality({i \in 1..4 : Includes(secret, CharAt(guess, i))})

Cows(guess, secret) ==
    Cardinality({i \in 1..4 : /\ CharAt(guess, i) /= CharAt(secret, i)
                              /\ Includes(secret, CharAt(guess, i))})

getFeedback(guess, secret) ==
    [bulls |-> Bulls(guess, secret), cows |-> Cows(guess, secret)]

\* ------------------------------------------------------------------ Init
Sockets == DOMAIN sockets

InitWith(n) ==
    /\ players = [m \in {} |-> NewPlayer(NoSocket)]
    /\ sockets = [s \in 1..n |-> [status |-> "idle", playerName |-> Null]]
    /\ timers = <<>>
    /\ emitted = <<>>
    /\ last = Event("init", NoSocket, Null, <<>>)
    /\ crashed = FALSE

Open(s) == sockets[s].status = "open"

\* io.on('connection'): socket ids are fresh, taken in increasing order
Connect ==
    /\ ~crashed
    /\ \E s \in Sockets :
        /\ sockets[s].status = "idle"
        /\ \A r \in Sockets : r < s => sockets[r].status /= "idle"
        /\ sockets' = [sockets EXCEPT ![s].status = "open"]
        /\ last' = Event("connection", s, Null, <<>>)
    /\ emitted' = <<>>
    /\ UNCHANGED <<players, timers, crashed>>

\* socket.on('registerName')
RegisterName(s, name) ==
    /\ ~crashed /\ Open(s)
    /\ LET force == IF Has(players, name) /\ players[name].socketId /= s
                    THEN <<Emit(players[name].socketId, "forceDisconnect", <<>>)>>
                    ELSE <<>>
           pl == IF Has(players, name)
                 THEN [players EXCEPT ![name] = [@ EXCEPT !.timer = NoTimer,
                                                          !.socketId = s,
                                                          !.disconnected = FALSE]]
                 ELSE [n \in DOMAIN players \cup {name} |->
                          IF n = name THEN NewPlayer(s) ELSE players[n]]
       IN /\ players' = pl
          /\ timers' = IF Has(players, name) /\ players[name].timer /= NoTimer
                       THEN clearTimeout(timers, players[name].timer)
                       ELSE timers
          /\ emitted' = force \o <<Emit(s, "nameRegistered", <<>>), UpdateLobby(pl)>>
    /\ sockets' = [sockets EXCEPT ![s].playerName = name]
    /\ last' = Event("registerName", s, name, <<>>)
    /\ UNCHANGED crashed

\* challengePlayer with the inGame tests missing
ChallengePlayerIgnoringInGame(s, targetName) ==
    /\ ~crashed /\ Open(s)
    /\ LET challengerName == sockets[s].playerName
       IN emitted' =
            IF ~Has(players, challengerName) \/ ~Has(players, targetName)
            THEN <<>>
            ELSE <<Emit(players[targetName].socketId, "challengeReceived", challengerName)>>
    /\ last' = Event("challengePlayer", s, targetName, <<>>)
    /\ UNCHANGED <<players, sockets, timers, crashed>>

\* socket.on('challengePlayer')
ChallengePlayer(s, targetName) ==
    /\ ~crashed /\ Open(s)
    /\ LET challengerName == sockets[s].playerName
       IN emitted' =
            IF \/ ~Has(players, challengerName) \/ ~Has(players, targetName)
               \/ players[challengerName].inGame \/ players[targetName].inGame
            THEN <<>>
            ELSE <<Emit(players[targetName].socketId, "challengeReceived", challengerName)>>
    /\ last' = Event("challengePlayer", s, targetName, <<>>)
    /\ UNCHANGED <<players, sockets, timers, crashed>>

\* socket.on('acceptChallenge')
AcceptChallenge(s, challengerName) ==
    /\ ~crashed /\ Open(s)
    /\ LET opponentName == sockets[s].playerName
       IN IF ~Has(players, challengerName) \/ ~Has(players, opponentName)
          THEN /\ emitted' = <<>>
               /\ UNCHANGED players
          ELSE LET p1 == [players EXCEPT ![challengerName].inGame = TRUE]
                   p2 == [p1 EXCEPT ![opponentName].inGame = TRUE]
                   p3 == [p2 EXCEPT ![challengerName].opponentName = opponentName]
                   p4 == [p3 EXCEPT ![opponentName].opponentName = challengerName]
               IN /\ players' = p4
                  /\ emitted' = <<Emit(p4[challengerName].socketId, "redirectToMatch", <<>>),
                                  Emit(p4[opponentName].socketId, "redirectToMatch", <<>>),
                                  UpdateLobby(p4)>>
    /\ last' = Event("acceptChallenge", s, challengerName, <<>>)
    /\ UNCHANGED <<sockets, timers, crashed>>

\* socket.on('lockSecret'); Math.random() < 0.5 is the choice of firstTurn
LockSecret(s, secret) ==
    /\ ~crashed /\ Open(s)
    /\ LET name == sockets[s].playerName
       IN IF ~Has(players, name)
          THEN /\ emitted' = <<>>
               /\ UNCHANGED players
          ELSE IF players[name].opponentName = Null
          THEN /\ emitted' = <<Emit(players[name].socketId, "gameCanceled", <<>>)>>
               /\ UNCHANGED players
          ELSE LET opponentName == players[name].opponentName
                   p1 == [players EXCEPT ![name].secret = Stored(secret)]
               IN IF Has(p1, opponentName) /\ Truthy(p1[opponentName].secret)
                  THEN \E firstTurn \in {name, opponentName} :
                        LET other == IF firstTurn = name THEN opponentName ELSE name
                            p2 == [p1 EXCEPT ![firstTurn].currentTurn = TRUE]
                        IN /\ players' = p2
                           /\ emitted' = <<Emit(p2[firstTurn].socketId, "startGame", TRUE),
                                           Emit(p2[other].socketId, "startGame", FALSE)>>
                  ELSE /\ players' = p1
                       /\ emitted' =
                            IF /\ Has(p1, opponentName)
                               /\ ~p1[opponentName].disconnected
                               /\ p1[opponentName].socketId /= NoSocket
                            THEN <<Emit(p1[opponentName].socketId, "opponentLocked", <<>>)>>
                            ELSE <<>>
    /\ last' = Event("lockSecret", s, Null, secret)
    /\ UNCHANGED <<sockets, timers, crashed>>

\* the early returns of submitGuess with the turn check missing
GuessDroppedIgnoringTurn(pl, name) ==
    \/ ~Has(pl, name)
    \/ ~Has(pl, pl[name].opponentName)
    \/ ~Truthy(pl[pl[name].opponentName].secret)

\* the early returns of submitGuess
GuessDropped(pl, name) ==
    \/ ~Has(pl, name)
    \/ ~pl[name].currentTurn
    \/ ~Has(pl, pl[name].opponentName)
    \/ ~Truthy(pl[pl[name].opponentName].secret)

\* socket.on('submitGuess'): with no argument, guess[0] in getFeedback throws
\* before the first emit and the process dies
SubmitGuess(s, guess) ==
    /\ ~crashed /\ Open(s)
    /\ LET name == sockets[s].playerName
       IN IF GuessDropped(players, name)
          THEN /\ emitted' = <<>>
               /\ UNCHANGED <<players, timers, crashed>>
          ELSE IF guess = NoPayload
          THEN /\ emitted' = <<>>
               /\ crashed' = TRUE
               /\ UNCHANGED <<players, timers>>
          ELSE LET player == players[name]
                   opponentName == player.opponentName
                   opponent == players[opponentName]
                   feedback == getFeedback(guess, opponent.secret[1])
                   result == [guess |-> guess, feedback |-> feedback]
                   shown == <<Emit(player.socketId, "guessResult", result),
                              Emit(opponent.socketId, "opponentGuess", result)>>
               IN IF feedback.bulls = 4
                  THEN LET pl == resetGamePlayers(players, name, opponentName)
                       IN /\ players' = pl
                          /\ timers' = resetGameTimers(players, timers, name, opponentName)
                          /\ emitted' = shown \o
                                <<Emit(player.socketId, "gameOver", "win"),
                                  Emit(opponent.socketId, "gameOver", "lose"),
                                  UpdateLobby(pl)>>
                          /\ UNCHANGED crashed
                  ELSE LET p1 == [players EXCEPT ![name].currentTurn = FALSE]
                           p2 == [p1 EXCEPT ![opponentName].currentTurn = TRUE]
                       IN /\ players' = p2
                          /\ emitted' = shown \o
                                <<Emit(opponent.socketId, "startGame", TRUE)>>
                          /\ UNCHANGED <<timers, crashed>>
    /\ last' = Event("submitGuess", s, Null, guess)
    /\ UNCHANGED sockets

\* socket.on('timerExpired'): when the opponent's record is gone,
\* opponent.socketId throws after the first emit and the process dies
TimerExpired(s) ==
    /\ ~crashed /\ Open(s)
    /\ LET name == sockets[s].playerName
       IN IF ~Has(players, name) \/ ~players[name].currentTurn
          THEN /\ emitted' = <<>>
               /\ UNCHANGED <<players, timers, crashed>>
          ELSE LET player == players[name]
                   opponentName == player.opponentName
               IN IF ~Has(players, opponentName)
                  THEN /\ emitted' = <<Emit(player.socketId, "gameOver", "forfeit_lose")>>
                       /\ crashed' = TRUE
                       /\ UNCHANGED <<players, timers>>
                  ELSE LET pl == resetGamePlayers(players, name, opponentName)
                       IN /\ players' = pl
                          /\ timers' = resetGameTimers(players, timers, name, opponentName)
                          /\ emitted' =
                                <<Emit(player.socketId, "gameOver", "forfeit_lose"),
                                  Emit(players[opponentName].socketId, "gameOver", "forfeit_win"),
                                  UpdateLobby(pl)>>
                          /\ UNCHANGED crashed
    /\ last' = Event("timerExpired", s, Null, <<>>)
    /\ UNCHANGED sockets

\* setTimeout(callback, 30000) in the disconnect handler: the handle is the
\* id of the socket that disconnected, the closure refers to the live record
NewTimer(s, name) == [id |-> s, name |-> name, detached |-> FALSE, opponentName |-> Null]

\* socket.on('disconnect')
Disconnect(s) ==
    /\ ~crashed /\ Open(s)
    /\ LET name == sockets[s].playerName
       IN IF ~Has(players, name)
          THEN /\ emitted' = <<>>
               /\ UNCHANGED <<players, timers>>
          ELSE IF players[name].inGame
          THEN /\ players' = [players EXCEPT ![name] = [@ EXCEPT !.disconnected = TRUE,
                                                                !.socketId = NoSocket,
                                                                !.timer = s]]
               /\ timers' = Append(timers, NewTimer(s, name))
               /\ emitted' = <<>>
          ELSE LET pl == Delete(players, name)
               IN /\ players' = pl
                  /\ timers' = Detach(timers, name, players[name].opponentName)
                  /\ emitted' = <<UpdateLobby(pl)>>
    /\ sockets' = [sockets EXCEPT ![s] = [status |-> "closed", playerName |-> Null]]
    /\ last' = Event("disconnect", s, Null, <<>>)
    /\ UNCHANGED crashed

\* the setTimeout callback of the disconnect handler.  All grace timers have
\* the same delay, so they fire in the order they were scheduled.
GraceTimerFires ==
    /\ ~crashed
    /\ timers /= <<>>
    /\ LET t == Head(timers)
           rest == Tail(timers)
           name == t.name
       IN /\ IF Has(players, name) /\ players[name].disconnected
             THEN LET opponentName == IF t.detached THEN t.opponentName
                                      ELSE players[name].opponentName
                      notify == IF /\ Has(players, opponentName)
                                   /\ players[opponentName].socketId /= NoSocket
                                THEN <<Emit(players[opponentName].socketId, "gameOver",
                                            "opponent_disconnected")>>
                                ELSE <<>>
                      p1 == resetGamePlayers(players, name, opponentName)
                      pl == Delete(p1, name)
                  IN /\ players' = pl
                     /\ timers' = Detach(resetGameTimers(players, rest, name, opponentName),
                                         name, p1[name].opponentName)
                     /\ emitted' = notify \o <<UpdateLobby(pl)>>
             ELSE /\ emitted' = <<>>
                  /\ timers' = rest
                  /\ UNCHANGED players
          /\ last' = Event("graceTimer", t.id, name, <<>>)
    /\ UNCHANGED <<sockets, crashed>>

Next ==
    \/ Connect
    \/ \E s \in Sockets, n \in Names : RegisterName(s, n)
    \/ \E s \in Sockets, n \in Names : ChallengePlayer(s, n)
    \/ \E s \in Sockets, n \in Names : AcceptChallenge(s, n)
    \/ \E s \in Sockets, p \in Secrets : LockSecret(s, p)
    \/ \E s \in Sockets, p \in Guesses : SubmitGuess(s, p)
    \/ \E s \in Sockets : TimerExpired(s)
    \/ \E s \in Sockets : Disconnect(s)
    \/ GraceTimerFires

Init == InitWith(NumSockets)

Spec == Init /\ [][Next]_vars

\* The runs in which clients only register, pair and drop: no secret is
\* locked and no guess or timerExpired is sent.
NextGrace ==
    \/ Connect
    \/ \E s \in Sockets, n \in Names : RegisterName(s, n)
    \/ \E s \in Sockets, n \in Names : AcceptChallenge(s, n)
    \/ \E s \in Sockets : Disconnect(s)
    \/ GraceTimerFires

InitGrace == InitWith(NumGraceSockets)

SpecGrace == InitGrace /\ [][NextGrace]_vars

\* The runs in which clients also send payloads that are not 4 distinct
\* symbols: the handlers take whatever string arrives.
NextPayload ==
    \/ Connect
    \/ \E s \in Sockets, n \in Names : RegisterName(s, n)
    \/ \E s \in Sockets, n \in Names : ChallengePlayer(s, n)
    \/ \E s \in Sockets, n \in Names : AcceptChallenge(s, n)
    \/ \E s \in Sockets, p \in Secrets \cup MalformedPayloads : LockSecret(s, p)
    \/ \E s \in Sockets, p \in Guesses \cup MalformedPayloads : SubmitGuess(s, p)
    \/ \E s \in Sockets : TimerExpired(s)
    \/ \E s \in Sockets : Disconnect(s)
    \/ GraceTimerFires

SpecPayload == Init /\ [][NextPayload]_vars

\* The runs in which clients also send lockSecret and submitGuess with no
\* argument.
NextMissing ==
    \/ Connect
    \/ \E s \in Sockets, n \in Names : RegisterName(s, n)
    \/ \E s \in Sockets, n \in Names : ChallengePlayer(s, n)
    \/ \E s \in Sockets, n \in Names : AcceptChallenge(s, n)
    \/ \E s \in Sockets, p \in Secrets \cup {NoPayload} : LockSecret(s, p)
    \/ \E s \in Sockets, p \in Guesses \cup {NoPayload} : SubmitGuess(s, p)
    \/ \E s \in Sockets : TimerExpired(s)
    \/ \E s \in Sockets : Disconnect(s)
    \/ GraceTimerFires

SpecMissing == Init /\ [][NextMissing]_vars

\* The runs of three names in which clients register, pair and play and no
\* connection closes.
Names3 == {"A", "B", "C"}

NextThree ==
    \/ Connect
    \/ \E s \in Sockets, n \in Names3 : RegisterName(s, n)
    \/ \E s \in Sockets, n \in Names3 : AcceptChallenge(s, n)
    \/ \E s \in Sockets, p \in Secrets : LockSecret(s, p)
    \/ \E s \in Sockets, p \in Guesses : SubmitGuess(s, p)
    \/ \E s \in Sockets : TimerExpired(s)

SpecThree == Init /\ [][NextThree]_vars

\* =========================================================================
\* src/unnamed/part_009: the server with a startup grace timer per paired
\* player and a turn timer for the turn-holder.  Same state variables.
\*
\* `timers` holds every pending setTimeout / setInterval callback in the order
\* they were scheduled.  A timer handle is opaque and the program uses it only
\* in `if (p.timer) clearTimeout(p.timer)`, so the fields player.timer and
\* player.startupTimer are represented on the timer side: a pending timer is
\* `held` when the field of the live record of its player holds its handle.
\* A field holding no pending timer (null, or the handle of a callback that
\* already ran) is the absence of a held timer.
\* =========================================================================

\* timers pending at once in a run of the part_009 specifications
MaxTimers == 3

StartupDelay == 10000
GraceDelay == 180000
TurnSeconds == 180
TickDelay == 1000

P9_NewPlayer(sid) ==
    [socketId |-> sid, inGame |-> FALSE, opponentName |-> Null,
     secret |-> NullSecret, currentTurn |-> FALSE, disconnected |-> FALSE,
     wins |-> 0, losses |-> 0]

\* A closure refers to record objects.  A reference is live while the object
\* is the value of players[name]; once the record is deleted the object can no
\* longer change and the reference keeps the fields it had then.  NoObject is
\* a captured `undefined`.
Live(n) == [live |-> TRUE, name |-> n, socketId |-> NoSocket, disconnected |-> FALSE]

Frozen(n, rec) ==
    [live |-> FALSE, name |-> n, socketId |-> rec.socketId, disconnected |-> rec.disconnected]

NoObject == [live |-> FALSE, name |-> Null, socketId |-> NoSocket, disconnected |-> FALSE]

Capture(pl, n) == IF Has(pl, n) THEN Live(n) ELSE NoObject

IsObject(obj) == obj.name /= Null

Deref(pl, obj) ==
    IF obj.live
    THEN [socketId |-> pl[obj.name].socketId, disconnected |-> pl[obj.name].disconnected]
    ELSE [socketId |-> obj.socketId, disconnected |-> obj.disconnected]

FreezeRef(pl, n, obj) == IF obj.live /\ obj.name = n THEN Frozen(n, pl[n]) ELSE obj

\* the record field that holds the handle of a timer of this kind
FieldOf(kind) == IF kind = "startup" THEN "startupTimer" ELSE "timer"

HeldIn(t, n, field) == t.held /\ t.name = n /\ FieldOf(t.kind) = field

\* delete players[n]: the closures that captured the record keep the object,
\* and the handles its fields held are out of reach
Freeze(tm, pl, n) ==
    [i \in 1..Len(tm) |->
        [tm[i] EXCEPT !.player = FreezeRef(pl, n, @),
                      !.opponent = FreezeRef(pl, n, @),
                      !.held = @ /\ tm[i].name /= n]]

\* if (players[n].field) { clearTimeout(players[n].field); players[n].field = null }
ClearField(tm, n, field) == SelectSeq(tm, LAMBDA t : ~HeldIn(t, n, field))

\* players[n].field = setTimeout(...): the handle the field held is dropped,
\* its timer stays pending
SetField(tm, n, field, timer) ==
    Append([i \in 1..Len(tm) |->
                [tm[i] EXCEPT !.held = @ /\ ~HeldIn(tm[i], n, field)]],
           timer)

StartupTimer(playerName) ==
    [kind |-> "startup", name |-> playerName, held |-> TRUE, opponentName |-> Null,
     player |-> Live(playerName), opponent |-> NoObject, socket |-> NoSocket]

TurnTimer(activePlayerName, opponentName, s) ==
    [kind |-> "turn", name |-> activePlayerName, held |-> TRUE,
     opponentName |-> opponentName,
     player |-> Live(activePlayerName), opponent |-> Live(opponentName), socket |-> s]

GraceTimer(name, opponentName, opponent) ==
    [kind |-> "grace", name |-> name, held |-> TRUE, opponentName |-> opponentName,
     player |-> NoObject, opponent |-> opponent, socket |-> NoSocket]

\* milliseconds from scheduling to the run of the callback that acts: the
\* interval callback runs every TickDelay and only emits timerUpdate until
\* its run number TurnSeconds
Delay(kind) ==
    IF kind = "startup" THEN StartupDelay
    ELSE IF kind = "grace" THEN GraceDelay
    ELSE TurnSeconds * TickDelay

\* a timer scheduled earlier with no longer a delay fires first
CanFire(tm, i) == \A j \in 1..(i - 1) : Delay(tm[j].kind) > Delay(tm[i].kind)

RemoveAt(tm, i) == SubSeq(tm, 1, i - 1) \o SubSeq(tm, i + 1, Len(tm))

P9_broadcastChat(message) == Emit(Broadcast, "chatMessage", message)

P9_ResetOne(pl, n) ==
    IF Has(pl, n)
    THEN [pl EXCEPT ![n] = [@ EXCEPT !.inGame = FALSE, !.opponentName = Null,
                                     !.secret = NullSecret, !.currentTurn = FALSE,
                                     !.disconnected = FALSE]]
    ELSE pl

P9_ClearOne(pl, tm, n) ==
    IF Has(pl, n) THEN ClearField(ClearField(tm, n, "timer"), n, "startupTimer") ELSE tm

P9_resetGamePlayers(pl, name1, name2) == P9_ResetOne(P9_ResetOne(pl, name1), name2)

P9_resetGameTimers(pl, tm, name1, name2) == P9_ClearOne(pl, P9_ClearOne(pl, tm, name1), name2)

getBullsAndCows(guess, secret) ==
    [bulls |-> Bulls(guess, secret), cows |-> Cows(guess, secret)]

\* socket.on('registerName')
P9_RegisterName(s, name) ==
    /\ ~crashed /\ Open(s)
    /\ LET existing == Has(players, name)
           force == IF /\ existing
                       /\ players[name].socketId /= NoSocket
                       /\ players[name].socketId /= s
                    THEN <<Emit(players[name].socketId, "forceDisconnect", <<>>)>>
                    ELSE <<>>
           pl == IF existing
                 THEN [players EXCEPT ![name] = [@ EXCEPT !.socketId = s,
                                                          !.disconnected = FALSE]]
                 ELSE [n \in DOMAIN players \cup {name} |->
                          IF n = name THEN P9_NewPlayer(s) ELSE players[n]]
       IN /\ players' = pl
          /\ timers' = IF existing
                       THEN ClearField(ClearField(timers, name, "timer"), name, "startupTimer")
                       ELSE timers
          /\ emitted' = force \o <<Emit(s, "nameRegistered", <<>>), UpdateLobby(pl),
                                   P9_broadcastChat(<<name, "joined">>)>>
    /\ sockets' = [sockets EXCEPT ![s].playerName = name]
    /\ last' = Event("registerName", s, name, <<>>)
    /\ UNCHANGED crashed

\* socket.on('challengePlayer')
P9_ChallengePlayer(s, targetName) ==
    /\ ~crashed /\ Open(s)
    /\ LET challengerName == sockets[s].playerName
       IN emitted' =
            IF \/ ~Has(players, challengerName) \/ ~Has(players, targetName)
               \/ players[challengerName].inGame \/ players[targetName].inGame
            THEN <<>>
            ELSE <<Emit(players[targetName].socketId, "challengeReceived", challengerName)>>
    /\ last' = Event("challengePlayer", s, targetName, <<>>)
    /\ UNCHANGED <<players, sockets, timers, crashed>>

\* startStartupTimer(playerName), called for a registered player
startStartupTimer(tm, playerName) ==
    SetField(tm, playerName, "startupTimer", StartupTimer(playerName))

\* socket.on('acceptChallenge')
P9_AcceptChallenge(s, challengerName) ==
    /\ ~crashed /\ Open(s)
    /\ LET opponentName == sockets[s].playerName
       IN IF ~Has(players, challengerName) \/ ~Has(players, opponentName)
          THEN /\ emitted' = <<>>
               /\ UNCHANGED <<players, timers>>
          ELSE LET p1 == [players EXCEPT ![challengerName].inGame = TRUE]
                   p2 == [p1 EXCEPT ![opponentName].inGame = TRUE]
                   p3 == [p2 EXCEPT ![challengerName].opponentName = opponentName]
                   p4 == [p3 EXCEPT ![opponentName].opponentName = challengerName]
               IN /\ Len(timers) + 2 <= MaxTimers
                  /\ players' = p4
                  /\ timers' = startStartupTimer(startStartupTimer(timers, challengerName),
                                                 opponentName)
                  /\ emitted' = <<Emit(p4[challengerName].socketId, "redirectToMatch", <<>>),
                                  Emit(p4[opponentName].socketId, "redirectToMatch", <<>>),
                                  UpdateLobby(p4),
                                  P9_broadcastChat(<<challengerName, opponentName, "in a game">>)>>
    /\ last' = Event("acceptChallenge", s, challengerName, <<>>)
    /\ UNCHANGED <<sockets, crashed>>

\* startTurnTimer(activePlayerName) called from the handlers of socket s: it
\* returns without a timer when the active player's opponent is not registered
TurnTimerStarts(pl, activePlayerName) == Has(pl, pl[activePlayerName].opponentName)

startTurnTimer(pl, tm, activePlayerName, s) ==
    IF TurnTimerStarts(pl, activePlayerName)
    THEN SetField(tm, activePlayerName, "timer",
                  TurnTimer(activePlayerName, pl[activePlayerName].opponentName, s))
    ELSE tm

EmitIfSocket(sid, ev, arg) == IF sid /= NoSocket THEN <<Emit(sid, ev, arg)>> ELSE <<>>

\* socket.on('lockSecret'); Math.random() < 0.5 is the choice of firstTurn
P9_LockSecret(s, secret) ==
    /\ ~crashed /\ Open(s)
    /\ LET name == sockets[s].playerName
       IN IF ~Has(players, name)
          THEN /\ emitted' = <<>>
               /\ UNCHANGED <<players, timers>>
          ELSE IF \/ players[name].opponentName = Null
                  \/ ~Has(players, players[name].opponentName)
          THEN /\ emitted' = EmitIfSocket(players[name].socketId, "gameCanceled", <<>>)
               /\ players' = P9_resetGamePlayers(players, name, players[name].opponentName)
               /\ timers' = P9_resetGameTimers(players, timers, name,
                                               players[name].opponentName)
          ELSE LET opponentName == players[name].opponentName
                   p1 == [players EXCEPT ![name].secret = Str(secret)]
                   t1 == ClearField(timers, name, "startupTimer")
               IN IF Truthy(p1[opponentName].secret)
                  THEN \E firstTurn \in {name, opponentName} :
                        LET other == IF firstTurn = name THEN opponentName ELSE name
                            p2 == [p1 EXCEPT ![firstTurn].currentTurn = TRUE]
                        IN /\ TurnTimerStarts(p2, firstTurn) => Len(t1) < MaxTimers
                           /\ players' = p2
                           /\ timers' = startTurnTimer(p2, t1, firstTurn, s)
                           /\ emitted' =
                                EmitIfSocket(p2[firstTurn].socketId, "startGame", TRUE)
                                \o EmitIfSocket(p2[other].socketId, "startGame", FALSE)
                  ELSE /\ players' = p1
                       /\ timers' = t1
                       /\ emitted' = <<Emit(p1[opponentName].socketId, "opponentLocked", <<>>)>>
    /\ last' = Event("lockSecret", s, Null, secret)
    /\ UNCHANGED <<sockets, crashed>>

\* the early returns of submitGuess
P9_GuessDropped(pl, name) ==
    \/ ~Has(pl, name)
    \/ ~pl[name].currentTurn
    \/ ~Has(pl, pl[name].opponentName)
    \/ ~Truthy(pl[pl[name].opponentName].secret)

\* socket.on('submitGuess'): in the branch that switches the turn the handler
\* evaluates `opponentName`, which is declared in no enclosing scope: a
\* ReferenceError is thrown after the third emit and the process dies
P9_SubmitGuess(s, guess) ==
    /\ ~crashed /\ Open(s)
    /\ LET name == sockets[s].playerName
       IN IF P9_GuessDropped(players, name)
          THEN /\ emitted' = <<>>
               /\ UNCHANGED <<players, timers, crashed>>
          ELSE LET player == players[name]
                   opponent == players[player.opponentName]
                   score == getBullsAndCows(guess, opponent.secret[1])
                   result == [guess |-> guess, bulls |-> score.bulls, cows |-> score.cows]
                   shown == <<Emit(player.socketId, "guessResult", result),
                              Emit(opponent.socketId, "opponentGuess", result)>>
               IN IF score.bulls = 4
                  THEN LET pl == P9_resetGamePlayers(players, name, player.opponentName)
                       IN /\ players' = pl
                          /\ timers' = P9_resetGameTimers(players, timers, name,
                                                          player.opponentName)
                          /\ emitted' = shown \o
                                <<Emit(player.socketId, "gameOver", "win"),
                                  Emit(opponent.socketId, "gameOver", "lose"),
                                  UpdateLobby(pl)>>
                          /\ UNCHANGED crashed
                  ELSE LET p1 == [players EXCEPT ![name].currentTurn = FALSE]
                           p2 == [p1 EXCEPT ![player.opponentName].currentTurn = TRUE]
                       IN /\ players' = p2
                          /\ emitted' = shown \o
                                <<Emit(opponent.socketId, "startGame", TRUE)>>
                          /\ crashed' = TRUE
                          /\ UNCHANGED timers
    /\ last' = Event("submitGuess", s, Null, guess)
    /\ UNCHANGED sockets

\* socket.on('disconnect')
P9_Disconnect(s) ==
    /\ ~crashed /\ Open(s)
    /\ LET name == sockets[s].playerName
       IN IF ~Has(players, name)
          THEN /\ emitted' = <<>>
               /\ UNCHANGED <<players, timers>>
          ELSE LET p1 == [players EXCEPT ![name] = [@ EXCEPT !.disconnected = TRUE,
                                                            !.socketId = NoSocket]]
                   opponentName == players[name].opponentName
               IN IF players[name].inGame
                  THEN /\ Len(timers) < MaxTimers
                       /\ players' = p1
                       /\ timers' = SetField(timers, name, "timer",
                                        GraceTimer(name, opponentName,
                                                   Capture(p1, opponentName)))
                       /\ emitted' = <<>>
                  ELSE LET pl == Delete(p1, name)
                       IN /\ players' = pl
                          /\ timers' = Freeze(timers, p1, name)
                          /\ emitted' = <<UpdateLobby(pl)>>
    /\ sockets' = [sockets EXCEPT ![s] = [status |-> "closed", playerName |-> Null]]
    /\ last' = Event("disconnect", s, Null, <<>>)
    /\ UNCHANGED crashed

\* the setTimeout callback of startStartupTimer; the event of a timer callback
\* records the position the timer had in `timers`
P9_StartupTimerFires(i) ==
    /\ ~crashed
    /\ i \in 1..Len(timers) /\ timers[i].kind = "startup" /\ CanFire(timers, i)
    /\ LET t == timers[i]
           rest == RemoveAt(timers, i)
           playerName == t.name
       IN /\ IF Has(players, playerName) /\ ~Truthy(players[playerName].secret)
             THEN /\ emitted' = <<Emit(Deref(players, t.player).socketId, "gameCanceled", <<>>)>>
                  /\ players' = P9_resetGamePlayers(players, playerName,
                                                    players[playerName].opponentName)
                  /\ timers' = P9_resetGameTimers(players, rest, playerName,
                                                  players[playerName].opponentName)
             ELSE /\ emitted' = <<>>
                  /\ timers' = rest
                  /\ UNCHANGED players
          /\ last' = Event("startupTimer", NoSocket, playerName, <<i>>)
    /\ UNCHANGED <<sockets, crashed>>

\* the run of the setInterval callback of startTurnTimer that brings timeLeft
\* to 0: clearInterval, then handleTimerExpired(activePlayerName).  When the
\* turn-holder's opponent record is gone, opponent.socketId throws.
P9_TurnTimerExpires(i) ==
    /\ ~crashed
    /\ i \in 1..Len(timers) /\ timers[i].kind = "turn" /\ CanFire(timers, i)
    /\ LET t == timers[i]
           rest == RemoveAt(timers, i)
           name == t.name
           ticks == <<Emit(Deref(players, t.player).socketId, "timerUpdate", 0),
                      Emit(Deref(players, t.opponent).socketId, "timerUpdate", 0)>>
       IN /\ sockets' = IF Open(t.socket)
                        THEN [sockets EXCEPT ![t.socket].playerName = name]
                        ELSE sockets
          /\ IF ~Has(players, name) \/ ~players[name].currentTurn
             THEN /\ emitted' = ticks
                  /\ timers' = rest
                  /\ UNCHANGED <<players, crashed>>
             ELSE LET opponentName == players[name].opponentName
                      lose == <<Emit(players[name].socketId, "gameOver", "forfeit_lose")>>
                  IN IF ~Has(players, opponentName)
                     THEN /\ emitted' = ticks \o lose
                          /\ timers' = rest
                          /\ crashed' = TRUE
                          /\ UNCHANGED players
                     ELSE LET pl == P9_resetGamePlayers(players, name, opponentName)
                          IN /\ players' = pl
                             /\ timers' = P9_resetGameTimers(players, rest, name, opponentName)
                             /\ emitted' = ticks \o lose \o
                                    <<Emit(players[opponentName].socketId, "gameOver",
                                           "forfeit_win"),
                                      UpdateLobby(pl)>>
                             /\ UNCHANGED crashed
          /\ last' = Event("turnTimer", t.socket, name, <<i>>)

\* the setTimeout callback of the disconnect handler
P9_GraceTimerFires(i) ==
    /\ ~crashed
    /\ i \in 1..Len(timers) /\ timers[i].kind = "grace" /\ CanFire(timers, i)
    /\ LET t == timers[i]
           rest == RemoveAt(timers, i)
           name == t.name
           opponentName == t.opponentName
           opponent == t.opponent
       IN /\ IF Has(players, name) /\ players[name].disconnected
             THEN LET bothGone == IsObject(opponent) /\ Deref(players, opponent).disconnected
                      oneGone == /\ ~bothGone
                                 /\ IsObject(opponent)
                                 /\ Deref(players, opponent).socketId /= NoSocket
                      resets == bothGone \/ oneGone
                      p1 == IF resets THEN P9_resetGamePlayers(players, name, opponentName)
                            ELSE players
                      t1 == IF resets THEN P9_resetGameTimers(players, rest, name, opponentName)
                            ELSE rest
                      pl == Delete(p1, name)
                      said == IF bothGone
                              THEN <<P9_broadcastChat(<<name, opponentName, "timed out">>)>>
                              ELSE IF oneGone
                              THEN <<Emit(Deref(players, opponent).socketId, "gameOver",
                                          "opponent_disconnected"),
                                     P9_broadcastChat(<<name, "left">>)>>
                              ELSE <<>>
                  IN /\ players' = pl
                     /\ timers' = Freeze(t1, p1, name)
                     /\ emitted' = said \o <<UpdateLobby(pl)>>
             ELSE /\ emitted' = <<>>
                  /\ timers' = rest
                  /\ UNCHANGED players
          /\ last' = Event("graceTimer", NoSocket, name, <<i>>)
    /\ UNCHANGED <<sockets, crashed>>

\* The runs in which no connection drops and no challenge is announced.
NextTurn ==
    \/ Connect
    \/ \E s \in Sockets, n \in Names : P9_RegisterName(s, n)
    \/ \E s \in Sockets, n \in Names : P9_AcceptChallenge(s, n)
    \/ \E s \in Sockets, p \in Secrets : P9_LockSecret(s, p)
    \/ \E s \in Sockets, p \in Guesses : P9_SubmitGuess(s, p)
    \/ \E i \in 1..MaxTimers : P9_StartupTimerFires(i)
    \/ \E i \in 1..MaxTimers : P9_TurnTimerExpires(i)

SpecTurn == Init /\ [][NextTurn]_vars

\* The runs in which no secret is locked and no guess is sent.
NextStartup ==
    \/ Connect
    \/ \E s \in Sockets, n \in Names : P9_RegisterName(s, n)
    \/ \E s \in Sockets, n \in Names : P9_ChallengePlayer(s, n)
    \/ \E s \in Sockets, n \in Names : P9_AcceptChallenge(s, n)
    \/ \E s \in Sockets : P9_Disconnect(s)
    \/ \E i \in 1..MaxTimers : P9_StartupTimerFires(i)
    \/ \E i \in 1..MaxTimers : P9_GraceTimerFires(i)

SpecStartup == Init /\ [][NextStartup]_vars

\* =========================================================================
\* The first program of src/unnamed/part_006: the server that keeps wins and
\* losses per player and publishes a leaderboard.  Same state variables and
\* the same representation of timers and closures as for part_009; its only
\* timers are the disconnect grace timers.
\* =========================================================================

\* connections opened, and wins a record accumulates, in a run of Spec6
NumSockets6 == 3
MaxWins == 2

\* the receiver of the POST requests of submitToLeaderboard
External == -2

P6_NewPlayer(sid) ==
    [socketId |-> sid, inGame |-> FALSE, opponentName |-> Null,
     secret |-> NullSecret, currentTurn |-> FALSE, disconnected |-> FALSE,
     wins |-> 0, losses |-> 0]

P6_broadcastChat(message) == Emit(Broadcast, "chatMessage", message)

\* getLeaderboard(): the entries of the players with at least one game; the
\* order of the entries and winPercentage are not represented
getLeaderboard(pl) ==
    [n \in {m \in DOMAIN pl : pl[m].wins + pl[m].losses > 0} |->
        [wins |-> pl[n].wins, losses |-> pl[n].losses,
         games |-> pl[n].wins + pl[n].losses]]

LeaderboardUpdate(pl) == Emit(Broadcast, "leaderboardUpdate", getLeaderboard(pl))

Submission(pl, n) ==
    IF Has(pl, n) /\ pl[n].wins + pl[n].losses > 0
    THEN <<Emit(External, "submit-leaderboard",
                [name |-> n, games |-> pl[n].wins + pl[n].losses, wins |-> pl[n].wins])>>
    ELSE <<>>

\* submitToLeaderboard(name, opponentName): the submissions are built from the
\* records as they are at the call
submitToLeaderboard(pl, name, opponentName) ==
    Submission(pl, name) \o Submission(pl, opponentName)

P6_ResetOne(pl, n) ==
    IF Has(pl, n)
    THEN [pl EXCEPT ![n] = [@ EXCEPT !.inGame = FALSE, !.opponentName = Null,
                                     !.secret = NullSecret, !.currentTurn = FALSE,
                                     !.disconnected = FALSE]]
    ELSE pl

P6_ClearOne(pl, tm, n) == IF Has(pl, n) THEN ClearField(tm, n, "timer") ELSE tm

P6_resetGamePlayers(pl, name1, name2) == P6_ResetOne(P6_ResetOne(pl, name1), name2)

P6_resetGameTimers(pl, tm, name1, name2) == P6_ClearOne(pl, P6_ClearOne(pl, tm, name1), name2)

\* socket.on('registerName')
P6_RegisterName(s, name) ==
    /\ ~crashed /\ Open(s)
    /\ LET existing == Has(players, name)
           force == IF /\ existing
                       /\ players[name].socketId /= NoSocket
                       /\ players[name].socketId /= s
                    THEN <<Emit(players[name].socketId, "forceDisconnect", <<>>)>>
                    ELSE <<>>
           pl == IF existing
                 THEN [players EXCEPT ![name] = [@ EXCEPT !.socketId = s,
                                                          !.disconnected = FALSE,
                                                          !.inGame = FALSE,
                                                          !.opponentName = Null,
                                                          !.secret = NullSecret,
                                                          !.currentTurn = FALSE]]
                 ELSE [n \in DOMAIN players \cup {name} |->
                          IF n = name THEN P6_NewPlayer(s) ELSE players[n]]
       IN /\ players' = pl
          /\ timers' = IF existing THEN ClearField(timers, name, "timer") ELSE timers
          /\ emitted' = force \o <<Emit(s, "nameRegistered", <<>>), UpdateLobby(pl),
                                   LeaderboardUpdate(pl),
                                   P6_broadcastChat(<<name, "joined">>)>>
    /\ sockets' = [sockets EXCEPT ![s].playerName = name]
    /\ last' = Event("registerName", s, name, <<>>)
    /\ UNCHANGED crashed

\* socket.on('rejoinLobby')
P6_RejoinLobby(s) ==
    /\ ~crashed /\ Open(s)
    /\ LET name == sockets[s].playerName
       IN IF Has(players, name)
          THEN LET pl == [players EXCEPT ![name] = [@ EXCEPT !.socketId = s,
                                                            !.inGame = FALSE,
                                                            !.opponentName = Null,
                                                            !.secret = NullSecret,
                                                            !.currentTurn = FALSE,
                                                            !.disconnected = FALSE]]
               IN /\ players' = pl
                  /\ timers' = ClearField(timers, name, "timer")
                  /\ emitted' = <<UpdateLobby(pl), LeaderboardUpdate(pl),
                                  P6_broadcastChat(<<name, "returned">>)>>
          ELSE /\ emitted' = <<Emit(s, "forceDisconnect", <<>>)>>
               /\ UNCHANGED <<players, timers>>
    /\ last' = Event("rejoinLobby", s, Null, <<>>)
    /\ UNCHANGED <<sockets, crashed>>

\* socket.on('acceptChallenge')
P6_AcceptChallenge(s, challengerName) ==
    /\ ~crashed /\ Open(s)
    /\ LET opponentName == sockets[s].playerName
       IN IF ~Has(players, challengerName) \/ ~Has(players, opponentName)
          THEN /\ emitted' = <<>>
               /\ UNCHANGED players
          ELSE LET p1 == [players EXCEPT ![challengerName].inGame = TRUE]
                   p2 == [p1 EXCEPT ![opponentName].inGame = TRUE]
                   p3 == [p2 EXCEPT ![challengerName].opponentName = opponentName]
                   p4 == [p3 EXCEPT ![opponentName].opponentName = challengerName]
               IN /\ players' = p4
                  /\ emitted' = <<Emit(p4[challengerName].socketId, "redirectToMatch", <<>>),
                                  Emit(p4[opponentName].socketId, "redirectToMatch", <<>>),
                                  UpdateLobby(p4), LeaderboardUpdate(p4),
                                  P6_broadcastChat(<<challengerName, opponentName, "in a game">>)>>
    /\ last' = Event("acceptChallenge", s, challengerName, <<>>)
    /\ UNCHANGED <<sockets, timers, crashed>>

\* socket.on('disconnect')
P6_Disconnect(s) ==
    /\ ~crashed /\ Open(s)
    /\ LET name == sockets[s].playerName
       IN IF ~Has(players, name)
          THEN /\ emitted' = <<>>
               /\ UNCHANGED <<players, timers>>
          ELSE LET p1 == [players EXCEPT ![name] = [@ EXCEPT !.disconnected = TRUE,
                                                            !.socketId = NoSocket]]
                   opponentName == players[name].opponentName
               IN IF players[name].inGame
                  THEN /\ players' = p1
                       /\ timers' = SetField(timers, name, "timer",
                                        GraceTimer(name, opponentName,
                                                   Capture(p1, opponentName)))
                       /\ emitted' = <<>>
                  ELSE LET pl == Delete(p1, name)
                       IN /\ players' = pl
                          /\ timers' = Freeze(timers, p1, name)
                          /\ emitted' = <<UpdateLobby(pl), LeaderboardUpdate(pl),
                                          P6_broadcastChat(<<name, "left">>)>>
    /\ sockets' = [sockets EXCEPT ![s] = [status |-> "closed", playerName |-> Null]]
    /\ last' = Event("disconnect", s, Null, <<>>)
    /\ UNCHANGED crashed

\* the setTimeout callback of the disconnect handler.  In both branches the
\* disconnected player is given a loss and the opponent a win;
\* players[opponentName].wins throws when the captured opponent's record has
\* been deleted.
P6_GraceTimerFires(i) ==
    /\ ~crashed
    /\ i \in 1..Len(timers) /\ timers[i].kind = "grace" /\ CanFire(timers, i)
    /\ LET t == timers[i]
           rest == RemoveAt(timers, i)
           name == t.name
           opponentName == t.opponentName
           opponent == t.opponent
       IN /\ IF Has(players, name) /\ players[name].disconnected
             THEN LET bothGone == IsObject(opponent) /\ Deref(players, opponent).disconnected
                      oneGone == /\ ~bothGone
                                 /\ IsObject(opponent)
                                 /\ Deref(players, opponent).socketId /= NoSocket
                      p1 == [players EXCEPT ![name].losses = @ + 1]
                  IN IF (bothGone \/ oneGone) /\ ~Has(players, opponentName)
                     THEN /\ players' = p1
                          /\ timers' = rest
                          /\ emitted' = <<>>
                          /\ crashed' = TRUE
                     ELSE IF bothGone \/ oneGone
                     THEN LET p2 == [p1 EXCEPT ![opponentName].wins = @ + 1]
                              p3 == P6_resetGamePlayers(p2, name, opponentName)
                              pl == Delete(p3, name)
                              said == IF bothGone
                                      THEN <<P6_broadcastChat(<<name, opponentName,
                                                               "timed out">>)>>
                                      ELSE <<Emit(Deref(players, opponent).socketId,
                                                  "gameOver", "opponent_disconnected"),
                                             P6_broadcastChat(<<name, "left">>)>>
                          IN /\ players[opponentName].wins < MaxWins
                             /\ players' = pl
                             /\ timers' = Freeze(P6_resetGameTimers(p2, rest, name,
                                                                    opponentName),
                                                 p3, name)
                             /\ emitted' = submitToLeaderboard(p2, name, opponentName)
                                           \o said
                                           \o <<UpdateLobby(pl), LeaderboardUpdate(pl)>>
                             /\ UNCHANGED crashed
                     ELSE LET pl == Delete(players, name)
                          IN /\ players' = pl
                             /\ timers' = Freeze(rest, players, name)
                             /\ emitted' = <<UpdateLobby(pl), LeaderboardUpdate(pl)>>
                             /\ UNCHANGED crashed
             ELSE /\ emitted' = <<>>
                  /\ timers' = rest
                  /\ UNCHANGED <<players, crashed>>
          /\ last' = Event("graceTimer", NoSocket, name, <<i>>)
    /\ UNCHANGED sockets

\* The runs in which clients register, pair, return to the lobby and drop.
Next6 ==
    \/ Connect
    \/ \E s \in Sockets, n \in Names : P6_RegisterName(s, n)
    \/ \E s \in Sockets : P6_RejoinLobby(s)
    \/ \E s \in Sockets, n \in Names : P6_AcceptChallenge(s, n)
    \/ \E s \in Sockets : P6_Disconnect(s)
    \/ \E i \in 1..NumSockets6 : P6_GraceTimerFires(i)

Init6 == InitWith(NumSockets6)

Spec6 == Init6 /\ [][Next6]_vars

\* =========================================================================
\* The second program of src/unnamed/part_006: the server that takes a device
\* id with registerName and sends syncState.  Same state variables; the field
\* disconnectTimer is represented on the timer side as for part_009.  A record
\* is stored under its name, so the field `name` is the key of the record.
\* The chat log is not represented.
\* =========================================================================

\* connections opened in a run of SpecDevice, and in a run of SpecSync
NumDeviceSockets == 2
NumSyncSockets == 3

Devices == {"d1", "d2"}

\* a registerName sent without deviceId
NoDevice == "none"

\* a value of Date.now()
Stamp == "ts"

\* the characters \d matches
Digits == 1..9

S6_NewPlayer(sid, deviceId) ==
    [socketId |-> sid, deviceId |-> deviceId, inGame |-> FALSE, opponentName |-> Null,
     secret |-> NullSecret, currentTurn |-> FALSE, role |-> Null, disconnectTs |-> Null]

lobbySnapshot(pl) ==
    [n \in DOMAIN pl |-> [inGame |-> pl[n].inGame, opponent |-> pl[n].opponentName]]

broadcastLobby(pl) == Emit(Broadcast, "updateLobby", lobbySnapshot(pl))

\* opponentOf(name): the name of the record it returns, Null when it returns
\* null
opponentOf(pl, name) ==
    IF Has(pl, name) /\ pl[name].opponentName /= Null /\ Has(pl, pl[name].opponentName)
    THEN pl[name].opponentName
    ELSE Null

resetPlayerState(pl, name) ==
    IF Has(pl, name)
    THEN [pl EXCEPT ![name] = [@ EXCEPT !.inGame = FALSE, !.opponentName = Null,
                                        !.secret = NullSecret, !.currentTurn = FALSE,
                                        !.role = Null]]
    ELSE pl

\* the reason sent to the opponent by endMatch
OppReason(reason) ==
    IF reason = "win" THEN "lose"
    ELSE IF reason = "lose" THEN "win"
    ELSE IF reason = "forfeit_win" THEN "forfeit_lose"
    ELSE IF reason = "forfeit_lose" THEN "forfeit_win"
    ELSE "win"

\* endMatch(name, reason), called for a registered name: the records it leaves
endMatchPlayers(pl, name) ==
    resetPlayerState(resetPlayerState(pl, opponentOf(pl, name)), name)

\* endMatch(name, reason): its emissions
endMatchEmits(pl, name, reason) ==
    EmitIfSocket(pl[name].socketId, "gameOver", reason)
    \o (IF opponentOf(pl, name) /= Null
        THEN EmitIfSocket(pl[opponentOf(pl, name)].socketId, "gameOver", OppReason(reason))
        ELSE <<>>)
    \o <<broadcastLobby(endMatchPlayers(pl, name))>>

\* the payload of syncState for whoName
SyncPayload(pl, whoName) ==
    LET opp == opponentOf(pl, whoName)
    IN [inGame |-> pl[whoName].inGame, you |-> whoName, opponent |-> opp,
        yourTurn |-> pl[whoName].currentTurn,
        youLocked |-> Truthy(pl[whoName].secret),
        opponentLocked |-> opp /= Null /\ Truthy(pl[opp].secret)]

emitState(pl, toSocketId, whoName) ==
    IF Has(pl, whoName)
    THEN <<Emit(toSocketId, "syncState", SyncPayload(pl, whoName))>>
    ELSE <<>>

\* /^\d{4}$/.test(p) && new Set(p.split('')).size === 4
S6_Valid(p) ==
    /\ Len(p) = 4
    /\ \A i \in 1..4 : p[i] \in Digits
    /\ \A i \in 1..4 : \A j \in 1..4 : i /= j => p[i] /= p[j]

S6_GraceTimer(name) == GraceTimer(name, Null, NoObject)

\* socket.on('registerName'): name is a non-empty string without surrounding
\* white space, which trim() returns as it is
S6_RegisterName(s, name, deviceId) ==
    /\ ~crashed /\ Open(s)
    /\ LET existing == Has(players, name)
           force == IF /\ existing
                       /\ deviceId /= NoDevice
                       /\ players[name].deviceId /= NoDevice
                       /\ deviceId /= players[name].deviceId
                    THEN EmitIfSocket(players[name].socketId, "forceDisconnect", <<>>)
                    ELSE <<>>
           pl == IF existing
                 THEN [players EXCEPT ![name] =
                        [@ EXCEPT !.socketId = s,
                                  !.deviceId = IF deviceId /= NoDevice THEN deviceId ELSE @,
                                  !.disconnectTs = Null]]
                 ELSE [n \in DOMAIN players \cup {name} |->
                          IF n = name THEN S6_NewPlayer(s, deviceId) ELSE players[n]]
           sync == IF pl[name].inGame
                   THEN <<Emit(s, "redirectToMatch", <<>>)>> \o emitState(pl, s, name)
                   ELSE <<>>
       IN /\ players' = pl
          /\ emitted' = force \o <<Emit(s, "nameRegistered", <<>>),
                                   Emit(s, "chatHistory", <<>>),
                                   broadcastLobby(pl)>> \o sync
    /\ sockets' = [sockets EXCEPT ![s].playerName = name]
    /\ last' = Event("registerName", s, name, <<deviceId>>)
    /\ UNCHANGED <<timers, crashed>>

\* socket.on('acceptChallenge') with startGameForPair
S6_AcceptChallenge(s, challengerName, opponentName) ==
    /\ ~crashed /\ Open(s)
    /\ IF ~Has(players, challengerName) \/ ~Has(players, opponentName)
       THEN /\ emitted' = <<>>
            /\ UNCHANGED players
       ELSE LET p1 == [players EXCEPT ![challengerName].inGame = TRUE]
                p2 == [p1 EXCEPT ![opponentName].inGame = TRUE]
                p3 == [p2 EXCEPT ![challengerName].opponentName = opponentName]
                p4 == [p3 EXCEPT ![opponentName].opponentName = challengerName]
                p5 == [p4 EXCEPT ![challengerName].role = "challenger"]
                p6 == [p5 EXCEPT ![opponentName].role = "challenged"]
            IN /\ players' = p6
               /\ emitted' = EmitIfSocket(p6[challengerName].socketId, "redirectToMatch", <<>>)
                             \o EmitIfSocket(p6[opponentName].socketId, "redirectToMatch", <<>>)
                             \o <<broadcastLobby(p6)>>
    /\ last' = Event("acceptChallenge", s, challengerName, <<opponentName>>)
    /\ UNCHANGED <<sockets, timers, crashed>>

\* tryBeginTurns(name), called with both records present: the records it leaves
tryBeginTurnsPlayers(pl, name) ==
    LET opp == opponentOf(pl, name)
        first == IF pl[name].role = "challenged" THEN name
                 ELSE IF pl[opp].role = "challenged" THEN opp ELSE name
        second == IF first = name THEN opp ELSE name
    IN IF Truthy(pl[name].secret) /\ Truthy(pl[opp].secret)
       THEN [[pl EXCEPT ![first].currentTurn = TRUE] EXCEPT ![second].currentTurn = FALSE]
       ELSE pl

\* tryBeginTurns(name): its emissions
tryBeginTurnsEmits(pl, name) ==
    LET opp == opponentOf(pl, name)
        first == IF pl[name].role = "challenged" THEN name
                 ELSE IF pl[opp].role = "challenged" THEN opp ELSE name
        second == IF first = name THEN opp ELSE name
        after == tryBeginTurnsPlayers(pl, name)
    IN IF Truthy(pl[name].secret) /\ Truthy(pl[opp].secret)
       THEN EmitIfSocket(after[first].socketId, "startGame", TRUE)
            \o EmitIfSocket(after[second].socketId, "startGame", FALSE)
            \o (IF after[first].socketId /= NoSocket
                THEN emitState(after, after[first].socketId, first) ELSE <<>>)
            \o (IF after[second].socketId /= NoSocket
                THEN emitState(after, after[second].socketId, second) ELSE <<>>)
       ELSE <<>>

\* socket.on('lockSecret')
S6_LockSecret(s, secret) ==
    /\ ~crashed /\ Open(s)
    /\ LET name == sockets[s].playerName
           opp == opponentOf(players, name)
       IN IF ~Has(players, name)
          THEN /\ emitted' = <<>>
               /\ UNCHANGED players
          ELSE IF opp = Null
          THEN LET pl == resetPlayerState(players, name)
               IN /\ players' = pl
                  /\ emitted' = EmitIfSocket(players[name].socketId, "gameCanceled", <<>>)
                                \o <<broadcastLobby(pl)>>
          ELSE IF ~S6_Valid(secret)
          THEN /\ emitted' = <<>>
               /\ UNCHANGED players
          ELSE LET p1 == [players EXCEPT ![name].secret = Str(secret)]
               IN /\ players' = tryBeginTurnsPlayers(p1, name)
                  /\ emitted' = EmitIfSocket(p1[opp].socketId, "opponentLocked", <<>>)
                                \o tryBeginTurnsEmits(p1, name)
    /\ last' = Event("lockSecret", s, Null, secret)
    /\ UNCHANGED <<sockets, timers, crashed>>

\* socket.on('disconnect'): the record keeps its socketId
S6_Disconnect(s) ==
    /\ ~crashed /\ Open(s)
    /\ LET name == sockets[s].playerName
       IN IF ~Has(players, name)
          THEN /\ emitted' = <<>>
               /\ UNCHANGED <<players, timers>>
          ELSE LET p1 == [players EXCEPT ![name].disconnectTs = Stamp]
               IN IF ~players[name].inGame
                  THEN LET pl == Delete(p1, name)
                       IN /\ players' = pl
                          /\ timers' = Freeze(timers, p1, name)
                          /\ emitted' = <<broadcastLobby(pl)>>
                  ELSE /\ players' = p1
                       /\ timers' = Append(ClearField(timers, name, "timer"),
                                           S6_GraceTimer(name))
                       /\ emitted' = <<>>
    /\ sockets' = [sockets EXCEPT ![s] = [status |-> "closed", playerName |-> Null]]
    /\ last' = Event("disconnect", s, Null, <<>>)
    /\ UNCHANGED crashed

\* the setTimeout callback of the disconnect handler.  All its timers have the
\* same delay, so they fire in the order they were scheduled.  After endMatch
\* the record has no opponent, so the second clean-up resets the record again
\* and broadcasts the lobby again.
S6_GraceTimerFires ==
    /\ ~crashed
    /\ timers /= <<>>
    /\ LET name == Head(timers).name
       IN /\ IF /\ Has(players, name)
                /\ ~(players[name].socketId /= NoSocket /\ players[name].disconnectTs = Null)
             THEN LET p1 == endMatchPlayers(players, name)
                      pl == resetPlayerState(resetPlayerState(p1, opponentOf(p1, name)), name)
                  IN /\ players' = pl
                     /\ emitted' = endMatchEmits(players, name, "opponent_disconnected")
                                   \o <<broadcastLobby(pl)>>
             ELSE /\ emitted' = <<>>
                  /\ UNCHANGED players
          /\ last' = Event("graceTimer", NoSocket, name, <<1>>)
    /\ timers' = Tail(timers)
    /\ UNCHANGED <<sockets, crashed>>

\* The runs in which clients register with any device id or none, pair, lock
\* secrets and drop.
NextDevice ==
    \/ Connect
    \/ \E s \in Sockets, n \in Names, d \in Devices \cup {NoDevice} : S6_RegisterName(s, n, d)
    \/ \E s \in Sockets, c \in Names, o \in Names : S6_AcceptChallenge(s, c, o)
    \/ \E s \in Sockets, p \in Secrets : S6_LockSecret(s, p)
    \/ \E s \in Sockets : S6_Disconnect(s)
    \/ S6_GraceTimerFires

InitDevice == InitWith(NumDeviceSockets)

SpecDevice == InitDevice /\ [][NextDevice]_vars

\* the device a name is always registered from in a run of SpecSync
HomeDevice(n) == IF n = "A" THEN "d1" ELSE "d2"

\* The runs in which every name is registered from its own device.
NextSync ==
    \/ Connect
    \/ \E s \in Sockets, n \in Names : S6_RegisterName(s, n, HomeDevice(n))
    \/ \E s \in Sockets, c \in Names, o \in Names : S6_AcceptChallenge(s, c, o)
    \/ \E s \in Sockets, p \in Secrets : S6_LockSecret(s, p)
    \/ \E s \in Sockets : S6_Disconnect(s)
    \/ S6_GraceTimerFires

InitSync == InitWith(NumSyncSockets)

SpecSync == InitSync /\ [][NextSync]_vars

\* =========================================================================
\* The second program of src/unnamed/part_002: the server whose registerName
\* assigns a unique name, lets the same device reclaim its name and caps the
\* lobby.  Same state variables, records with the fields of S6_NewPlayer.
\* The chat log is not represented.
\* =========================================================================

\* connections opened in a run of SpecLobby
NumLobbySockets == 3

\* the lobby cap, parseInt(process.env.MAX_LOBBY || '200', 10)
MAX_LOBBY == 2

\* the largest suffix of a requested name
MaxSuffix == 2

\* the candidates `${root} (${i})` of the names, built once
SuffixedNames ==
    [root \in Names |->
        [i \in 0..(NumLobbySockets + MAX_LOBBY + 2) |->
            root \o " (" \o ToString(i) \o ")"]]

\* `${root} (${i})`
Suffixed(root, i) == SuffixedNames[root][i]

\* the names clients ask for: a bare name, or a name that carries a suffix
RequestedNames == Names \cup {Suffixed("A", MaxSuffix)}

\* normalizeBaseName(name) for a requested name: a trailing "(digits)" and
\* the white space before it are cut off
normalizeBaseName(name) ==
    IF \E r \in Names, i \in 0..MaxSuffix : name = Suffixed(r, i)
    THEN CHOOSE r \in Names : \E i \in 0..MaxSuffix : name = Suffixed(r, i)
    ELSE name

\* getUniqueName(base, playersMap): the root when it is free, else the first
\* free `${root} (${i})` counting from 2; one of the first size + 1
\* candidates is free
getUniqueName(base, playersMap) ==
    LET root == normalizeBaseName(base)
        free == {i \in 2..(Cardinality(DOMAIN playersMap) + 2) :
                    ~Has(playersMap, Suffixed(root, i))}
    IN IF ~Has(playersMap, root) THEN root
       ELSE Suffixed(root, CHOOSE i \in free : \A j \in free : i <= j)

S2_lobbySnapshot(pl) ==
    [n \in DOMAIN pl |-> [inGame |-> pl[n].inGame, opponent |-> pl[n].opponentName]]

S2_broadcastLobby(pl) == Emit(Broadcast, "updateLobby", S2_lobbySnapshot(pl))

\* the record written by the upsert: the prior record's fields, with the new
\* socketId, the device id sent (else the prior one) and disconnectTs = null
S2_Upserted(pl, assignedName, sid, deviceId) ==
    IF Has(pl, assignedName)
    THEN [pl[assignedName] EXCEPT !.socketId = sid,
                                  !.deviceId = IF deviceId /= NoDevice THEN deviceId ELSE @,
                                  !.disconnectTs = Null]
    ELSE S6_NewPlayer(sid, deviceId)

\* totalPlayers >= MAX_LOBBY && !isSameDeviceReclaim && !existingBase
S2_LobbyFull(pl, base, deviceId) ==
    /\ Cardinality(DOMAIN pl) >= MAX_LOBBY
    /\ ~( /\ Has(pl, base)
          /\ pl[base].deviceId /= NoDevice /\ deviceId /= NoDevice
          /\ pl[base].deviceId = deviceId )
    /\ ~Has(pl, base)

\* socket.on('registerName'): requestedName is a non-empty string.  The source
\* listing ends inside the branch that puts a mid-game player back, after its
\* socket.emit('redirectToMatch').
S2_RegisterName(s, requestedName, deviceId) ==
    /\ ~crashed /\ Open(s)
    /\ LET base == normalizeBaseName(requestedName)
           existingBase == Has(players, base)
           isSameDeviceReclaim ==
               /\ existingBase
               /\ players[base].deviceId /= NoDevice /\ deviceId /= NoDevice
               /\ players[base].deviceId = deviceId
           assignedName ==
               IF existingBase /\ ~isSameDeviceReclaim
               THEN getUniqueName(base, players) ELSE base
           force == IF /\ isSameDeviceReclaim
                       /\ players[base].socketId /= NoSocket
                       /\ players[base].socketId /= s
                    THEN <<Emit(players[base].socketId, "forceDisconnect", <<>>)>>
                    ELSE <<>>
           previousName == sockets[s].playerName
           p1 == IF /\ previousName /= Null /\ previousName /= assignedName
                    /\ Has(players, previousName)
                    /\ players[previousName].socketId = s
                 THEN Delete(players, previousName)
                 ELSE players
           prior == Has(p1, assignedName)
           pl == [n \in DOMAIN p1 \cup {assignedName} |->
                    IF n = assignedName THEN S2_Upserted(p1, assignedName, s, deviceId)
                    ELSE p1[n]]
       IN IF S2_LobbyFull(players, base, deviceId)
          THEN /\ emitted' = <<Emit(s, "lobbyFull", [max |-> MAX_LOBBY])>>
               /\ UNCHANGED <<players, sockets>>
          ELSE /\ players' = pl
               /\ sockets' = [sockets EXCEPT ![s].playerName = assignedName]
               /\ emitted' =
                    force
                    \o <<Emit(s, "nameRegistered", [assignedName |-> assignedName])>>
                    \o (IF assignedName /= requestedName
                        THEN <<Emit(s, "chatMessage", assignedName)>> ELSE <<>>)
                    \o (IF ~prior
                        THEN <<Emit(Broadcast, "chatMessage", assignedName)>> ELSE <<>>)
                    \o <<Emit(s, "chatHistory", <<>>), S2_broadcastLobby(pl)>>
                    \o (IF pl[assignedName].inGame
                        THEN <<Emit(s, "redirectToMatch", <<>>)>> ELSE <<>>)
    /\ last' = Event("registerName", s, requestedName, <<deviceId>>)
    /\ UNCHANGED <<timers, crashed>>

\* the device a connection comes from in a run of SpecLobby: the first two
\* connections are opened by the same device, the others by another one
LobbyDevice(s) == IF s <= 2 THEN "d1" ELSE "d2"

\* The runs in which clients only connect and register.
NextLobby ==
    \/ Connect
    \/ \E s \in Sockets, n \in RequestedNames : S2_RegisterName(s, n, LobbyDevice(s))

InitLobby == InitWith(NumLobbySockets)

SpecLobby == InitLobby /\ [][NextLobby]_vars

\* =========================================================================
\* getFeedback of src/server.js as a function of its two arguments: every
\* pair of a 4-symbol secret and a guess is scored once.  The guess is any
\* 4-symbol string, or the secret followed by one more symbol.
\* =========================================================================

\* symbols the strings scored in SpecFeedback are made of
NumSymbols == 5

Symbols == 1..NumSymbols

Strings4 == [1..4 -> Symbols]

Repeat(c, n) == [i \in 1..n |-> c]

\* the string getFeedback returns: bulls, then cows, then misses
FeedbackString(guess, secret) ==
    Repeat("bull", Bulls(guess, secret))
    \o Repeat("cow", Cows(guess, secret))
    \o Repeat("miss", 4 - Bulls(guess, secret) - Cows(guess, secret))

InitFeedback ==
    /\ players = [m \in {} |-> NewPlayer(NoSocket)]
    /\ sockets = <<>>
    /\ timers = <<>>
    /\ emitted = <<>>
    /\ crashed = FALSE
    /\ \E secret \in Strings4 :
        \E guess \in Strings4 \cup {Append(secret, c) : c \in Symbols} :
            last = Event("input", NoSocket, Null, <<guess, secret>>)

\* const feedback = getFeedback(guess, opponent.secret)
Score ==
    /\ last.ev = "input"
    /\ LET guess == last.payload[1]
           secret == last.payload[2]
       IN emitted' = <<Emit(NoSocket, "feedback",
                            [score |-> getFeedback(guess, secret),
                             shown |-> FeedbackString(guess, secret)])>>
    /\ last' = [last EXCEPT !.ev = "getFeedback"]
    /\ UNCHANGED <<players, sockets, timers, crashed>>

NextFeedback == Score

SpecFeedback == InitFeedback /\ [][NextFeedback]_vars

\* ------------------------------------- bullsAndCows (part_006, second program)
\* a bullsAndCows whose `cows -= bulls` line is missing
bullsAndCowsKeepingBulls(guess, secret) ==
    [bulls |-> Bulls(guess, secret),
     cows |-> Cardinality({i \in 1..Len(guess) : Includes(secret, guess[i])})]

\* bulls over the first four positions; cows counts every character of guess
\* that secret includes, then subtracts the bulls
bullsAndCows(guess, secret) ==
    [bulls |-> Bulls(guess, secret),
     cows |-> Cardinality({i \in 1..Len(guess) : Includes(secret, guess[i])})
              - Bulls(guess, secret)]

\* socket.on('submitGuess') of the second program of part_006; bullsAndCows
\* reads secret[i], which throws when the opponent's secret is null
S6_SubmitGuess(s, guess) ==
    /\ ~crashed /\ Open(s)
    /\ LET name == sockets[s].playerName
           opp == opponentOf(players, name)
       IN IF \/ ~Has(players, name) \/ opp = Null
             \/ ~players[name].currentTurn
             \/ ~S6_Valid(guess)
          THEN /\ emitted' = <<>>
               /\ UNCHANGED <<players, crashed>>
          ELSE IF players[opp].secret = NullSecret
          THEN /\ crashed' = TRUE
               /\ emitted' = <<>>
               /\ UNCHANGED players
          ELSE LET score == bullsAndCows(guess, players[opp].secret[1])
                   result == [guess |-> guess, bulls |-> score.bulls, cows |-> score.cows]
                   results == EmitIfSocket(players[name].socketId, "guessResult", result)
                              \o EmitIfSocket(players[opp].socketId, "opponentGuess", result)
                   p1 == [players EXCEPT ![name].currentTurn = FALSE]
                   p2 == [p1 EXCEPT ![opp].currentTurn = TRUE]
               IN /\ IF score.bulls = 4
                     THEN /\ players' = endMatchPlayers(players, name)
                          /\ emitted' = results \o endMatchEmits(players, name, "win")
                     ELSE /\ players' = p2
                          /\ emitted' =
                                results
                                \o EmitIfSocket(p2[opp].socketId, "startGame", TRUE)
                                \o EmitIfSocket(p2[name].socketId, "startGame", FALSE)
                                \o (IF p2[name].socketId /= NoSocket
                                    THEN emitState(p2, p2[name].socketId, name) ELSE <<>>)
                                \o (IF p2[opp].socketId /= NoSocket
                                    THEN emitState(p2, p2[opp].socketId, opp) ELSE <<>>)
                  /\ UNCHANGED crashed
    /\ last' = Event("submitGuess", s, Null, guess)
    /\ UNCHANGED <<sockets, timers>>

\* The runs of the second program in which clients register from their own
\* device, pair, lock secrets and guess, and no connection closes.
NextPlay ==
    \/ Connect
    \/ \E s \in Sockets, n \in Names : S6_RegisterName(s, n, HomeDevice(n))
    \/ \E s \in Sockets, c \in Names, o \in Names : S6_AcceptChallenge(s, c, o)
    \/ \E s \in Sockets, p \in Secrets : S6_LockSecret(s, p)
    \/ \E s \in Sockets, p \in Guesses : S6_SubmitGuess(s, p)

SpecPlay == InitDevice /\ [][NextPlay]_vars

\* ------------------------------------------------ emojiFeedback (part_003)
\* the positions of the first loop's else branch
NonBulls(guess, target) == {i \in 1..4 : CharAt(guess, i) /= CharAt(target, i)}

\* guessMap / targetMap: occurrences of each character of str outside the bulls
CountMap(str, guess, target) ==
    [d \in {CharAt(str, i) : i \in NonBulls(guess, target)} |->
        Cardinality({i \in NonBulls(guess, target) : CharAt(str, i) = d})]

MathMin(a, b) == IF a <= b THEN a ELSE b

RECURSIVE SumCows(_, _, _)
\* for (const d in guessMap) if (targetMap[d]) cows += Math.min(...)
SumCows(guessMap, targetMap, keys) ==
    IF keys = {} THEN 0
    ELSE LET d == CHOOSE k \in keys : TRUE
         IN (IF d \in DOMAIN targetMap THEN MathMin(guessMap[d], targetMap[d]) ELSE 0)
            + SumCows(guessMap, targetMap, keys \ {d})

emojiFeedback(guess, target) ==
    LET guessMap == CountMap(guess, guess, target)
        targetMap == CountMap(target, guess, target)
    IN [bulls |-> 4 - Cardinality(NonBulls(guess, target)),
        cows |-> SumCows(guessMap, targetMap, DOMAIN guessMap)]

\* the string emojiFeedback returns
EmojiString(guess, target) ==
    LET score == emojiFeedback(guess, target)
    IN Repeat("bull", score.bulls)
       \o Repeat("cow", score.cows)
       \o Repeat("miss", 4 - score.bulls - score.cows)

\* the three scoring functions applied to the same guess and secret
ScoreAll ==
    /\ last.ev = "input"
    /\ LET guess == last.payload[1]
           secret == last.payload[2]
       IN emitted' = <<Emit(NoSocket, "getFeedback",
                            [score |-> getFeedback(guess, secret),
                             shown |-> FeedbackString(guess, secret)]),
                       Emit(NoSocket, "bullsAndCows",
                            [score |-> bullsAndCows(guess, secret)]),
                       Emit(NoSocket, "emojiFeedback",
                            [score |-> emojiFeedback(guess, secret),
                             shown |-> EmojiString(guess, secret)])>>
    /\ last' = [last EXCEPT !.ev = "scoreAll"]
    /\ UNCHANGED <<players, sockets, timers, crashed>>

NextScoring == ScoreAll

SpecScoring == InitFeedback /\ [][NextScoring]_vars

\* ------------------------------------------------- vocabulary of the claims
Registered == DOMAIN players

Locked(pl, n) == Has(pl, n) /\ pl[n].secret /= NullSecret

\* the name the last event's connection is bound to (socket.data.playerName)
Caller == IF last.socket \in Sockets THEN sockets[last.socket].playerName ELSE Null

EmittedEvent(em, ev) == \E i \in 1..Len(em) : em[i].ev = ev

EmittedTo(em, to, ev, arg) ==
    \E i \in 1..Len(em) : em[i].ev = ev /\ em[i].to = to /\ em[i].arg = arg

MatchFieldsReset(pl, n) ==
    /\ ~pl[n].inGame /\ pl[n].opponentName = Null
    /\ pl[n].secret = NullSecret /\ ~pl[n].currentTurn

\* n is connected: its record holds the id of an open connection bound to n
ConnectedAs(n) ==
    /\ Has(players, n)
    /\ players[n].socketId \in Sockets
    /\ Open(players[n].socketId)
    /\ sockets[players[n].socketId].playerName = n

\* n is in a match with another player who references n back
InMatch(n) ==
    /\ Has(players, n)
    /\ players[n].opponentName /= Null
    /\ players[n].opponentName /= n
    /\ Has(players, players[n].opponentName)
    /\ players[players[n].opponentName].opponentName = n

\* n and its opponent are in a match, both connected, both secrets locked
ActiveMatch(n) ==
    /\ InMatch(n)
    /\ ConnectedAs(n) /\ ConnectedAs(players[n].opponentName)
    /\ Locked(players, n) /\ Locked(players, players[n].opponentName)

PendingFor(tm, n) == \E i \in 1..Len(tm) : tm[i].name = n

\* the match fields of record n are the same in pl2 as in pl1
SameMatchFields(pl1, pl2, n) ==
    /\ pl2[n].inGame = pl1[n].inGame
    /\ pl2[n].opponentName = pl1[n].opponentName
    /\ pl2[n].secret = pl1[n].secret
    /\ pl2[n].currentTurn = pl1[n].currentTurn

\* C1: from the moment both players of a pairing have locked a secret until
\* the match is reset, exactly one of the two has currentTurn = true; stated
\* for the lockSecret steps: a lockSecret received while both connected
\* players of a match have locked and exactly one holds the turn leaves
\* exactly one of them holding the turn.
C1_ExactlyOneTurnHolder ==
    [][ ( /\ last'.ev = "lockSecret"
          /\ ActiveMatch(sockets[last'.socket].playerName)
          /\ LET name == sockets[last'.socket].playerName
             IN players[name].currentTurn
                    /= players[players[name].opponentName].currentTurn )
        => LET name == sockets[last'.socket].playerName
               opponentName == players[name].opponentName
           IN /\ Has(players', name) /\ Has(players', opponentName)
              /\ players'[name].currentTurn /= players'[opponentName].currentTurn ]_vars

\* C2: acceptChallenge(challengerName) changes no player field and emits no
\* redirectToMatch when the challenger or the accepting player is already
\* paired; stated for an accepting player and a challenger that are two
\* connected players, one of them in a match.
C2_AcceptWhenPairedIsNoOp ==
    [][ ( /\ last'.ev = "acceptChallenge"
          /\ last'.name /= sockets[last'.socket].playerName
          /\ ConnectedAs(last'.name)
          /\ ConnectedAs(sockets[last'.socket].playerName)
          /\ \/ InMatch(last'.name)
             \/ InMatch(sockets[last'.socket].playerName) )
        => (players' = players /\ ~EmittedEvent(emitted', "redirectToMatch")) ]_vars

\* C3: if player P has opponentName = Q then Q is in the registry and
\* Q.opponentName = P.
C3_PairingIsMutual ==
    \A p \in Registered :
        players[p].opponentName /= Null
        => ( /\ Has(players, players[p].opponentName)
             /\ players[players[p].opponentName].opponentName = p )

\* C4: a lockSecret from a player whose secret is already set, or arriving after
\* the match became Active, changes no secret and no currentTurn flag and emits
\* no startGame; stated for the two connected players of a match.
C4_OneSecretPerMatch ==
    [][ ( /\ last'.ev = "lockSecret"
          /\ InMatch(sockets[last'.socket].playerName)
          /\ ConnectedAs(sockets[last'.socket].playerName)
          /\ ConnectedAs(players[sockets[last'.socket].playerName].opponentName)
          /\ Locked(players, sockets[last'.socket].playerName) )
        => ( /\ Registered' = Registered
             /\ \A n \in Registered :
                    /\ players'[n].secret = players[n].secret
                    /\ players'[n].currentTurn = players[n].currentTurn
             /\ ~EmittedEvent(emitted', "startGame") ) ]_vars

\* C5: a grace timer callback acts only if it was scheduled by the player's
\* most recent disconnect and the player has not re-registered since (the
\* record still holds its handle); any other callback is a no-op.  Stated for
\* a player in a match whose opponent is connected.
C5_OnlyLatestGraceTimerActs ==
    [][ ( /\ last'.ev = "graceTimer"
          /\ InMatch(last'.name)
          /\ ConnectedAs(players[last'.name].opponentName)
          /\ (players' /= players \/ emitted' /= <<>>) )
        => players[last'.name].timer = last'.socket ]_vars

\* C6: registerName for an existing name during its disconnect grace window
\* leaves no grace timer of that name pending, sets disconnected = false with
\* the new socketId, and leaves inGame, opponentName, secret and currentTurn of
\* that player and of every other player unchanged.  Stated for a fresh
\* connection registering a player in a match whose opponent is connected.
C6_ReconnectCancelsGraceTimer ==
    [][ ( /\ last'.ev = "registerName"
          /\ sockets[last'.socket].playerName = Null
          /\ InMatch(last'.name)
          /\ ConnectedAs(players[last'.name].opponentName)
          /\ players[last'.name].disconnected )
        => ( /\ ~PendingFor(timers', last'.name)
             /\ Registered' = Registered
             /\ players'[last'.name].socketId = last'.socket
             /\ ~players'[last'.name].disconnected
             /\ \A n \in Registered : SameMatchFields(players, players', n) ) ]_vars

\* C7: when the grace timer fires for an in-match player who is still
\* disconnected, the opponent, if connected, is sent
\* gameOver('opponent_disconnected'), both players' match fields are reset and
\* the disconnected player's record is removed.
C7_GraceExpiryEndsMatch ==
    [][ ( /\ last'.ev = "graceTimer"
          /\ Has(players, last'.name)
          /\ players[last'.name].disconnected
          /\ players[last'.name].inGame )
        => LET name == last'.name
               opponentName == players[name].opponentName
           IN /\ ~Has(players', name)
              /\ (Has(players, opponentName) /\ opponentName /= name)
                  => /\ Has(players', opponentName)
                     /\ MatchFieldsReset(players', opponentName)
                     /\ players[opponentName].socketId /= NoSocket
                         => EmittedTo(emitted', players[opponentName].socketId,
                                      "gameOver", "opponent_disconnected") ]_vars

\* C8: a player whose connection dropped and who does not re-register is
\* eventually removed.  Records are deleted only by the disconnect of a
\* connection bound to the name or by a grace timer of the name, and such
\* timers are scheduled only by those disconnects: a dropped record with
\* neither pending is never removed.
C8_DroppedPlayerWillBeRemoved ==
    \A n \in Registered :
        players[n].socketId = NoSocket
        => \/ PendingFor(timers, n)
           \/ \E s \in Sockets : Open(s) /\ sockets[s].playerName = n

\* C9: when the turn-holder submits a guess that scores 4 bulls against the
\* opponent's secret, gameOver('win') is emitted to the guesser and
\* gameOver('lose') to the opponent, both records end with their match fields
\* reset, and the lobby snapshot broadcast last shows both with inGame = false.
C9_WinEndsMatch ==
    [][ ( /\ last'.ev = "submitGuess"
          /\ LET name == sockets[last'.socket].playerName
             IN /\ Has(players, name)
                /\ players[name].currentTurn
                /\ Has(players, players[name].opponentName)
                /\ Truthy(players[players[name].opponentName].secret)
                /\ getFeedback(last'.payload,
                               players[players[name].opponentName].secret[1]).bulls = 4 )
        => LET name == sockets[last'.socket].playerName
               opponentName == players[name].opponentName
               lobby == emitted'[Len(emitted')]
           IN /\ EmittedTo(emitted', players[name].socketId, "gameOver", "win")
              /\ EmittedTo(emitted', players[opponentName].socketId, "gameOver", "lose")
              /\ Registered' = Registered
              /\ MatchFieldsReset(players', name)
              /\ MatchFieldsReset(players', opponentName)
              /\ lobby.ev = "updateLobby" /\ lobby.to = Broadcast
              /\ ~lobby.arg[name] /\ ~lobby.arg[opponentName] ]_vars

C9_Witness ==
    /\ last.ev = "submitGuess"
    /\ \E i \in 1..Len(emitted), j \in 1..Len(emitted) :
        /\ emitted[i].ev = "gameOver" /\ emitted[i].arg = "win"
        /\ emitted[j].ev = "gameOver" /\ emitted[j].arg = "lose"
        /\ emitted[i].to /= emitted[j].to
        /\ emitted[i].to = last.socket
        /\ emitted[j].to \in Sockets /\ Open(emitted[j].to)

\* C10: a submitGuess from a player who does not hold the turn changes no
\* state and emits nothing.
C10_GuessOutOfTurnIsNoOp ==
    [][ ( /\ last'.ev = "submitGuess"
          /\ Has(players, sockets[last'.socket].playerName)
          /\ ~players[sockets[last'.socket].playerName].currentTurn )
        => ( /\ emitted' = <<>>
             /\ UNCHANGED <<players, sockets, timers, crashed>> ) ]_vars

\* the caller is in a match whose turn is the opponent's
C10_Witness ==
    /\ last.ev = "submitGuess"
    /\ emitted = <<>>
    /\ Has(players, Caller)
    /\ ~players[Caller].currentTurn
    /\ Has(players, players[Caller].opponentName)
    /\ players[Caller].opponentName /= Caller
    /\ players[players[Caller].opponentName].currentTurn
    /\ players[players[Caller].opponentName].opponentName = Caller

\* a payload is well formed when it is 4 mutually distinct symbols
WellFormed(p) ==
    /\ Len(p) = 4
    /\ \A i \in 1..4 : \A j \in 1..4 : i /= j => p[i] /= p[j]

\* C11: a submitGuess whose payload is not 4 mutually distinct symbols changes
\* no state and emits nothing, even when sent by the turn-holder; a lockSecret
\* whose payload is not 4 distinct symbols stores no secret.  Stated for the
\* two connected players of a match.
C11_MalformedPayloadRejected ==
    [][ ( /\ last'.ev \in {"submitGuess", "lockSecret"}
          /\ ~WellFormed(last'.payload)
          /\ InMatch(sockets[last'.socket].playerName)
          /\ ConnectedAs(sockets[last'.socket].playerName)
          /\ ConnectedAs(players[sockets[last'.socket].playerName].opponentName) )
        => IF last'.ev = "submitGuess"
           THEN emitted' = <<>> /\ UNCHANGED <<players, sockets, timers, crashed>>
           ELSE /\ Registered' = Registered
                /\ \A n \in Registered : players'[n].secret = players[n].secret ]_vars

\* C12: a timerExpired from the player holding the turn sends
\* gameOver('forfeit_lose') to that player and gameOver('forfeit_win') to the
\* opponent and resets both; a timerExpired from a registered player not
\* holding the turn changes nothing and emits nothing.
C12_TimerExpiredForfeits ==
    [][ ( /\ last'.ev = "timerExpired"
          /\ Has(players, sockets[last'.socket].playerName) )
        => LET name == sockets[last'.socket].playerName
               opponentName == players[name].opponentName
           IN IF players[name].currentTurn
              THEN /\ ~crashed'
                   /\ EmittedTo(emitted', players[name].socketId, "gameOver", "forfeit_lose")
                   /\ MatchFieldsReset(players', name)
                   /\ Has(players', opponentName)
                   /\ EmittedTo(emitted', players[opponentName].socketId,
                                "gameOver", "forfeit_win")
                   /\ MatchFieldsReset(players', opponentName)
              ELSE /\ emitted' = <<>>
                   /\ UNCHANGED <<players, sockets, timers, crashed>> ]_vars

\* the pending timer whose callback ran in the last step, as it was before
Fired == timers[last'.payload[1]]

TurnTimerPending(tm, n) == \E i \in 1..Len(tm) : tm[i].kind = "turn" /\ tm[i].name = n

\* C13: a turn timer started for one turn never causes a forfeit in a later
\* turn: the expiry of an interval whose handle the player's record no longer
\* holds (a later startTurnTimer replaced it) changes no record and sends no
\* gameOver.  Stated for the two connected players of a match.
C13_StaleTurnTimerIsNoOp ==
    [][ ( /\ last'.ev = "turnTimer"
          /\ ~Fired.held
          /\ ActiveMatch(last'.name) )
        => ( /\ players' = players
             /\ ~EmittedEvent(emitted', "gameOver") ) ]_vars

\* C14: on a non-winning guess by the turn-holder, currentTurn flips to the
\* opponent, no turn timer of the previous holder remains pending and a turn
\* timer of the new holder is pending.  Stated for the two connected players
\* of a match in which only the guesser holds the turn.
C14_TurnPassRestartsTimer ==
    [][ ( /\ last'.ev = "submitGuess"
          /\ ActiveMatch(sockets[last'.socket].playerName)
          /\ LET name == sockets[last'.socket].playerName
                 opponentName == players[name].opponentName
             IN /\ players[name].currentTurn
                /\ ~players[opponentName].currentTurn
                /\ getBullsAndCows(last'.payload,
                                   players[opponentName].secret[1]).bulls /= 4 )
        => LET name == sockets[last'.socket].playerName
               opponentName == players[name].opponentName
           IN /\ ~players'[name].currentTurn
              /\ players'[opponentName].currentTurn
              /\ ~TurnTimerPending(timers', name)
              /\ TurnTimerPending(timers', opponentName) ]_vars

\* C15: when a startup grace timer fires while its player has not locked a
\* secret, both paired players are sent gameCanceled, both are reset to
\* unpaired and a lobby snapshot showing both with inGame = false is
\* broadcast.  Stated for the two connected players of a match.
C15_StartupExpiryCancelsMatch ==
    [][ ( /\ last'.ev = "startupTimer"
          /\ InMatch(last'.name)
          /\ ConnectedAs(last'.name)
          /\ ConnectedAs(players[last'.name].opponentName)
          /\ ~Truthy(players[last'.name].secret) )
        => LET name == last'.name
               opponentName == players[name].opponentName
           IN /\ EmittedTo(emitted', players[name].socketId, "gameCanceled", <<>>)
              /\ EmittedTo(emitted', players[opponentName].socketId, "gameCanceled", <<>>)
              /\ MatchFieldsReset(players', name)
              /\ MatchFieldsReset(players', opponentName)
              /\ \E i \in 1..Len(emitted') :
                    /\ emitted'[i].ev = "updateLobby"
                    /\ emitted'[i].to = Broadcast
                    /\ ~emitted'[i].arg[name] /\ ~emitted'[i].arg[opponentName] ]_vars

\* C16: every match created by acceptChallenge eventually leaves
\* AwaitingSecrets provided scheduled timers fire.  Without lockSecret only a
\* timer callback ends a match, so a match awaiting secrets needs a pending
\* timer: with none pending it stays as it is for ever.  Stated for the two
\* connected players of a match.
C16_AwaitingSecretsHasTimer ==
    \A n \in Registered :
        ( /\ InMatch(n) /\ ~Locked(players, n)
          /\ ConnectedAs(n) /\ ConnectedAs(players[n].opponentName) )
        => timers /= <<>>

\* C17: when a grace timer fires while both players of a match are
\* disconnected, the match is torn down without a winner: no wins or losses
\* counter of a player that stays registered changes and no gameOver is
\* emitted.
C17_BothDroppedNoWinner ==
    [][ ( /\ last'.ev = "graceTimer"
          /\ InMatch(last'.name)
          /\ players[last'.name].disconnected
          /\ players[players[last'.name].opponentName].disconnected
          /\ Fired.opponentName = players[last'.name].opponentName
          /\ Fired.opponent.live )
        => ( /\ ~crashed'
             /\ \A n \in Registered \cap Registered' :
                    /\ players'[n].wins = players[n].wins
                    /\ players'[n].losses = players[n].losses
             /\ ~EmittedEvent(emitted', "gameOver") ) ]_vars

\* C18: after a match has ended no timer scheduled for either former
\* participant remains pending.  Grace timers are scheduled only for a player
\* in a match and inGame is cleared only by resetGame, so a pending timer of a
\* registered player that is not in a match has outlived the match it was
\* scheduled in.
C18_NoTimerOutlivesMatch ==
    \A n \in Registered : PendingFor(timers, n) => players[n].inGame

\* C19: once a match has ended, a submitGuess or lockSecret from a former
\* participant changes no field of any player record until that player is
\* paired again.  Stated for a caller whose opponent was removed from the
\* registry: only a grace expiry removes a player who is in a match.
C19_NoEffectAfterMatchEnd ==
    [][ ( /\ last'.ev \in {"submitGuess", "lockSecret"}
          /\ ConnectedAs(sockets[last'.socket].playerName)
          /\ LET name == sockets[last'.socket].playerName
             IN /\ players[name].opponentName \notin {Null, name}
                /\ ~Has(players, players[name].opponentName) )
        => players' = players ]_vars

\* C20: in no reachable state does a player have opponentName equal to its
\* own name.
C20_OpponentIsAnotherPlayer ==
    \A n \in Registered : players[n].opponentName /= n

\* C21: challengePlayer changes no player record in any case; it emits
\* challengeReceived, carrying the caller's name, to the target's socketId
\* when caller and target are both registered and neither is inGame, and
\* emits nothing otherwise.
C21_ChallengeOnlyNotifies ==
    [][ last'.ev = "challengePlayer"
        => LET challengerName == sockets[last'.socket].playerName
               targetName == last'.name
           IN /\ players' = players
              /\ IF /\ Has(players, challengerName) /\ Has(players, targetName)
                    /\ ~players[challengerName].inGame /\ ~players[targetName].inGame
                 THEN emitted' = <<Emit(players[targetName].socketId,
                                        "challengeReceived", challengerName)>>
                 ELSE emitted' = <<>> ]_vars

\* a connected player was sent the challenge of another connected player
C21_Witness ==
    /\ last.ev = "challengePlayer"
    /\ ConnectedAs(Caller) /\ ConnectedAs(last.name)
    /\ Caller /= last.name
    /\ emitted = <<Emit(players[last.name].socketId, "challengeReceived", Caller)>>

\* n is in a match in which no turn has been given yet: the state of a match
\* from acceptChallenge until both secrets are locked
AwaitingSecrets(n) ==
    /\ InMatch(n)
    /\ ~players[n].currentTurn /\ ~players[players[n].opponentName].currentTurn
    /\ ~(Locked(players, n) /\ Locked(players, players[n].opponentName))

\* C22: in AwaitingSecrets a lockSecret stores the caller's secret and touches
\* no other secret.  While the opponent has not locked it sets no currentTurn
\* and emits only opponentLocked, to the opponent if connected.  When the
\* opponent has locked, exactly one of the two ends with currentTurn set and
\* the handler emits exactly two startGame, one to each player, with the value
\* true going to the player whose currentTurn was set.
C22_LockSecretStartsGame ==
    [][ ( /\ last'.ev = "lockSecret"
          /\ AwaitingSecrets(sockets[last'.socket].playerName) )
        => LET name == sockets[last'.socket].playerName
               opponentName == players[name].opponentName
               holders == {n \in {name, opponentName} : players'[n].currentTurn}
           IN /\ Registered' = Registered
              /\ players'[name].secret = Str(last'.payload)
              /\ players'[opponentName].secret = players[opponentName].secret
              /\ IF ~Locked(players, opponentName)
                 THEN /\ holders = {}
                      /\ emitted' =
                            IF /\ players[opponentName].socketId /= NoSocket
                               /\ ~players[opponentName].disconnected
                            THEN <<Emit(players[opponentName].socketId,
                                        "opponentLocked", <<>>)>>
                            ELSE <<>>
                 ELSE /\ Cardinality(holders) = 1
                      /\ Len(emitted') = 2
                      /\ \A n \in {name, opponentName} :
                            EmittedTo(emitted', players[n].socketId, "startGame",
                                      n \in holders) ]_vars

\* the second lockSecret of a match between two connected players: one of
\* them holds the turn and was sent startGame(true), the other startGame(false)
C22_Witness ==
    /\ last.ev = "lockSecret"
    /\ ActiveMatch(Caller)
    /\ players[Caller].currentTurn /= players[players[Caller].opponentName].currentTurn
    /\ \E n \in Registered :
        /\ players[n].currentTurn
        /\ emitted = <<Emit(players[n].socketId, "startGame", TRUE),
                       Emit(players[players[n].opponentName].socketId, "startGame", FALSE)>>
        /\ players[n].socketId /= players[players[n].opponentName].socketId

\* C23: after every event handler or timer callback that adds or removes a
\* player or changes an inGame flag, the last emission of the handler is an
\* updateLobby broadcast whose snapshot is the {name, inGame} projection of the
\* registry as the handler leaves it.
C23_LobbyBroadcastAfterChange ==
    [][ ( \/ Registered' /= Registered
          \/ \E n \in Registered \cap Registered' :
                players'[n].inGame /= players[n].inGame )
        => /\ emitted' /= <<>>
           /\ emitted'[Len(emitted')] =
                Emit(Broadcast, "updateLobby",
                     [n \in Registered' |-> players'[n].inGame]) ]_vars

\* a grace timer removed its player and reset the opponent, who stays
\* registered, and the snapshot was broadcast
C23_Witness ==
    /\ last.ev = "graceTimer"
    /\ ~Has(players, last.name)
    /\ Registered /= {}
    /\ emitted /= <<>>
    /\ emitted[Len(emitted)] =
            Emit(Broadcast, "updateLobby", [n \in Registered |-> FALSE])

\* C27: no inbound event, whatever its payload and in whatever reachable
\* state, makes a handler fail with a runtime error.  Stated for the events of
\* a connected caller whose opponent is another name, connected if it is
\* registered.
C27_NoHandlerThrows ==
    [][ ( /\ last'.ev \in {"lockSecret", "submitGuess", "timerExpired"}
          /\ ConnectedAs(sockets[last'.socket].playerName)
          /\ LET name == sockets[last'.socket].playerName
                 opponentName == players[name].opponentName
             IN /\ opponentName /= name
                /\ Has(players, opponentName) => ConnectedAs(opponentName) )
        => ~crashed' ]_vars

\* the arguments and the result of the getFeedback call of the last step
Scored == last.ev = "getFeedback"
ScoredGuess == last.payload[1]
ScoredSecret == last.payload[2]
ScoredBulls == emitted[1].arg.score.bulls
ScoredCows == emitted[1].arg.score.cows

\* positions of a 4-symbol string outside the bull positions that hold c
CountOutsideBulls(str, guess, secret, c) ==
    Cardinality({i \in 1..4 : guess[i] /= secret[i] /\ str[i] = c})

Min(a, b) == IF a <= b THEN a ELSE b

RECURSIVE MultisetCows(_, _, _)
\* the sum over the symbols 1..k of the smaller of the two counts
MultisetCows(guess, secret, k) ==
    IF k = 0 THEN 0
    ELSE Min(CountOutsideBulls(guess, guess, secret, k),
             CountOutsideBulls(secret, guess, secret, k))
         + MultisetCows(guess, secret, k - 1)

\* C28: for every pair of 4-symbol inputs, repeated symbols included, the
\* cows of getFeedback are the sum over the distinct symbols of
\* min(count in guess outside bull positions, count in secret outside bull
\* positions).
C28_CowsAreMultisetCows ==
    (Scored /\ Len(ScoredGuess) = 4)
    => ScoredCows = MultisetCows(ScoredGuess, ScoredSecret, NumSymbols)

\* C29: for every secret and guess of 4 mutually distinct symbols,
\* bulls + cows <= 4 and cows is the number of symbols that guess and secret
\* share outside the bull positions.
C29_DistinctSymbolsScore ==
    (Scored /\ WellFormed(ScoredGuess) /\ WellFormed(ScoredSecret))
    => /\ ScoredBulls + ScoredCows <= 4
       /\ ScoredCows =
            Cardinality({c \in Symbols :
                            /\ CountOutsideBulls(ScoredGuess, ScoredGuess, ScoredSecret, c) > 0
                            /\ CountOutsideBulls(ScoredSecret, ScoredGuess, ScoredSecret, c) > 0})

\* a guess of 4 distinct symbols scored against a secret of 4 distinct symbols
\* with a bull, a cow and a miss
C29_Witness ==
    /\ Scored
    /\ WellFormed(ScoredGuess) /\ WellFormed(ScoredSecret)
    /\ ScoredBulls = 1 /\ ScoredCows = 2
    /\ emitted[1].arg.shown = <<"bull", "cow", "cow", "miss">>

\* C30: for every secret of 4 distinct symbols, scoring the secret against
\* itself yields the feedback of exactly 4 bulls and 0 cows, and a guess
\* scores 4 bulls only when it is equal to the secret.
C30_FourBullsIffEqual ==
    (Scored /\ WellFormed(ScoredSecret))
    => /\ ScoredGuess = ScoredSecret
            => /\ ScoredBulls = 4 /\ ScoredCows = 0
               /\ emitted[1].arg.shown = <<"bull", "bull", "bull", "bull">>
       /\ ScoredBulls = 4 => ScoredGuess = ScoredSecret

\* the device id sent with the registerName of the last step
SentDevice == last'.payload[1]

\* C24: a registerName for a name held by a record with a different device
\* token never rebinds that record: the record stays as it is, with its
\* socketId and match state.  Stated for a name held by a connected player
\* and a registerName from another connection, both device ids given.
C24_OtherDeviceNeverRebinds ==
    [][ ( /\ last'.ev = "registerName"
          /\ ConnectedAs(last'.name)
          /\ players[last'.name].socketId /= last'.socket
          /\ SentDevice /= NoDevice
          /\ players[last'.name].deviceId /= NoDevice
          /\ SentDevice /= players[last'.name].deviceId )
        => ( /\ Has(players', last'.name)
             /\ players'[last'.name] = players[last'.name] ) ]_vars

\* C25: a registerName for a name held by a record with the same device token
\* rebinds the name to the new connection, sends forceDisconnect to the prior
\* connection when one is live, and leaves inGame, opponentName, secret and
\* currentTurn unchanged.  Stated for a name held by a connected player and a
\* registerName from another connection.
C25_SameDeviceReclaims ==
    [][ ( /\ last'.ev = "registerName"
          /\ ConnectedAs(last'.name)
          /\ players[last'.name].socketId /= last'.socket
          /\ SentDevice /= NoDevice
          /\ SentDevice = players[last'.name].deviceId )
        => ( /\ Has(players', last'.name)
             /\ players'[last'.name].socketId = last'.socket
             /\ sockets'[last'.socket].playerName = last'.name
             /\ EmittedTo(emitted', players[last'.name].socketId, "forceDisconnect", <<>>)
             /\ SameMatchFields(players, players', last'.name) ) ]_vars

\* C26: when an in-match player re-registers within the grace window, a
\* syncState with the match view of its receiver is emitted to both
\* participants of the match.  Stated for a player whose connection dropped,
\* whose grace timer is pending and whose opponent is connected, registering
\* from its own device on a fresh connection.
C26_ResyncToBoth ==
    [][ ( /\ last'.ev = "registerName"
          /\ sockets[last'.socket].playerName = Null
          /\ InMatch(last'.name)
          /\ players[last'.name].inGame
          /\ players[last'.name].disconnectTs /= Null
          /\ PendingFor(timers, last'.name)
          /\ SentDevice = players[last'.name].deviceId
          /\ ConnectedAs(players[last'.name].opponentName) )
        => LET name == last'.name
               opponentName == players[name].opponentName
           IN /\ EmittedTo(emitted', last'.socket, "syncState",
                           SyncPayload(players', name))
              /\ EmittedTo(emitted', players[opponentName].socketId, "syncState",
                           SyncPayload(players', opponentName)) ]_vars

\* C32: a lockSecret, submitGuess or timerExpired received from a connection
\* bound to P changes only the records of P and of the player named by
\* P.opponentName: every other record of the registry is left as it was and
\* no record is added or removed.
C32_MatchEventsTouchOnlyThePair ==
    [][ last'.ev \in {"lockSecret", "submitGuess", "timerExpired"}
        => LET name == sockets[last'.socket].playerName
               opponentName == IF Has(players, name) THEN players[name].opponentName
                               ELSE Null
           IN /\ DOMAIN players' = DOMAIN players
              /\ \A n \in Registered \ {name, opponentName} :
                    players'[n] = players[n] ]_vars

\* a timerExpired ended the caller's match while a third registered player,
\* in a match with a locked secret, was left as it was
C32_Witness ==
    /\ last.ev = "timerExpired"
    /\ EmittedEvent(emitted, "gameOver")
    /\ Cardinality(Registered) = 3
    /\ Has(players, Caller) /\ MatchFieldsReset(players, Caller)
    /\ \E n \in Registered \ {Caller} : players[n].inGame /\ Locked(players, n)

\* C33: a disconnect from a connection that a later registerName of the same
\* name has superseded does not touch the record: the record, now bound to
\* another open connection, is not marked disconnected, keeps its socketId,
\* is not deleted, and no grace timer is started.
C33_SupersededDisconnectIsNoOp ==
    [][ ( /\ last'.ev = "disconnect"
          /\ ConnectedAs(sockets[last'.socket].playerName)
          /\ players[sockets[last'.socket].playerName].socketId /= last'.socket )
        => LET name == sockets[last'.socket].playerName
           IN /\ Has(players', name)
              /\ players'[name] = players[name]
              /\ timers' = timers ]_vars

\* C34: a match is created only after a challengePlayer was delivered and
\* then accepted.  Stated for the runs in which no challengePlayer is ever
\* sent: in them no two connected players are in a match with each other.
C34_NoMatchWithoutChallenge ==
    \A n \in Registered :
        ~( /\ InMatch(n)
           /\ ConnectedAs(n)
           /\ ConnectedAs(players[n].opponentName) )

\* C35: connections and names are bound one to one: no socket id is held by
\* two records, and a record's non-null socketId names an open connection
\* whose playerName is the record's name.
C35_ConnectionsAndNamesOneToOne ==
    /\ \A n, m \in Registered :
          (n /= m /\ players[n].socketId /= NoSocket)
              => players[n].socketId /= players[m].socketId
    /\ \A n \in Registered :
          players[n].socketId /= NoSocket
              => /\ players[n].socketId \in Sockets
                 /\ Open(players[n].socketId)
                 /\ sockets[players[n].socketId].playerName = n

\* C38: in every record inGame is true exactly when opponentName is not
\* null, and a record with a locked secret or with currentTurn = true is
\* inGame.
C38_MatchFieldsConsistent ==
    \A n \in Registered :
        /\ players[n].inGame <=> players[n].opponentName /= Null
        /\ (players[n].secret /= NullSecret \/ players[n].currentTurn)
              => players[n].inGame

\* a match ended by a winning guess: both records are back in the lobby with
\* every match field cleared
C38_Witness ==
    /\ last.ev = "submitGuess"
    /\ Has(players, Caller)
    /\ EmittedTo(emitted, players[Caller].socketId, "gameOver", "win")
    /\ \A n \in Registered : MatchFieldsReset(players, n)
    /\ Cardinality(Registered) = 2

\* C37: for every guess and secret of 4 mutually distinct symbols,
\* getFeedback, bullsAndCows and emojiFeedback yield the same bulls and cows
\* (and the two feedback strings are equal), and for every pair of 4-symbol
\* inputs, repeated symbols included, emojiFeedback yields the positional
\* bulls and the multiset cows.
C37_ScoringsAgree ==
    (last.ev = "scoreAll" /\ Len(last.payload[1]) = 4)
    => LET guess == last.payload[1]
           secret == last.payload[2]
       IN /\ (WellFormed(guess) /\ WellFormed(secret))
                => /\ emitted[1].arg.score = emitted[2].arg.score
                   /\ emitted[2].arg.score = emitted[3].arg.score
                   /\ emitted[1].arg.shown = emitted[3].arg.shown
          /\ emitted[3].arg.score.bulls
                = Cardinality({i \in 1..4 : guess[i] = secret[i]})
          /\ emitted[3].arg.score.cows = MultisetCows(guess, secret, NumSymbols)

\* the three functions scored a guess of 4 distinct symbols against a secret
\* of 4 distinct symbols with a bull, two cows and a miss
C37_Witness ==
    /\ last.ev = "scoreAll"
    /\ WellFormed(last.payload[1]) /\ WellFormed(last.payload[2])
    /\ emitted[2].arg.score = [bulls |-> 1, cows |-> 2]
    /\ emitted[3].arg.shown = <<"bull", "cow", "cow", "miss">>

\* C36: in the second program of part_006 the first turn goes to the player
\* who accepted the challenge (role 'challenged') whatever the order of the
\* two lockSecret events, and a later lockSecret never moves the turn.
\* Stated for the lockSecret steps of a connected player in a match with a
\* connected opponent, one of them the challenger and the other the
\* challenged: the lockSecret that completes the pair of secrets leaves the
\* challenged player and only it holding the turn, and a lockSecret that
\* follows a guess, with both secrets locked and exactly one turn holder,
\* leaves both players' currentTurn as it was.
C36_ChallengedFirstAndLockKeepsTurn ==
    [][ ( /\ last'.ev = "lockSecret"
          /\ InMatch(sockets[last'.socket].playerName)
          /\ ConnectedAs(sockets[last'.socket].playerName)
          /\ ConnectedAs(players[sockets[last'.socket].playerName].opponentName)
          /\ LET name == sockets[last'.socket].playerName
             IN {players[name].role, players[players[name].opponentName].role}
                    = {"challenger", "challenged"} )
        => LET name == sockets[last'.socket].playerName
               opp == players[name].opponentName
               accepted == IF players[name].role = "challenged" THEN name ELSE opp
               challenger == IF accepted = name THEN opp ELSE name
           IN /\ ( /\ ~(Locked(players, name) /\ Locked(players, opp))
                   /\ Locked(players', name) /\ Locked(players', opp) )
                 => /\ players'[accepted].currentTurn
                    /\ ~players'[challenger].currentTurn
              /\ ( /\ last.ev = "submitGuess"
                   /\ Locked(players, name) /\ Locked(players, opp)
                   /\ players[name].currentTurn /= players[opp].currentTurn )
                 => /\ players'[name].currentTurn = players[name].currentTurn
                    /\ players'[opp].currentTurn = players[opp].currentTurn ]_vars

\* C31: in the second program of part_002 the number of registered players
\* never exceeds MAX_LOBBY: once the registry holds MAX_LOBBY players, a
\* registerName that is not a same-device reclaim adds no record.
C31_RegistryWithinCap ==
    Cardinality(Registered) <= MAX_LOBBY

====
